---- MODULE Spec2Model ----
(***************************************************************************)
(* Learning-analytics core of Classify: the SM-2 flashcard scheduler       *)
(* (models/learning.py), the mastery formula and the quiz grading and      *)
(* progress bookkeeping of app.py.                                         *)
(*                                                                         *)
(* The specifications of the module:                                       *)
(*   SpecSched   - FlashcardReview.calculate_next_review / Flashcard.is_due*)
(*   SpecMastery - Progress.update_mastery as a pure function of a row     *)
(*   SpecGrade   - submit_quiz as a function of the quiz rows and the form *)
(*   SpecQuiz    - sequences of submit_quiz and submit_course_quiz         *)
(*   SpecGen     - generate_lecture_quiz / generate_quiz_from_lecture      *)
(*   SpecRel     - build_concept_relationships                             *)
(*   SpecAssemble- take_course_quiz as a function of the quiz rows         *)
(*   SpecCourse  - take_course_quiz followed by submit_course_quiz         *)
(*   SpecProgress- upload_lecture and view_lecture requests, interleaved   *)
(*   SpecList    - Course.get_weak_concepts / Course.get_strong_concepts    *)
(*   SpecCourseGen - generate_course_quiz                                  *)
(*   SpecExtract - extract_concepts_from_lecture, run after run            *)
(*   SpecRebuild - build_concept_relationships requests, interleaved        *)
(*   SpecSubmit  - submit_quiz requests, interleaved                        *)
(*   SpecStudy   - view_lecture, submit_quiz and submit_course_quiz         *)
(*   SpecRegen   - submit_quiz and generate_lecture_quiz                    *)
(* Each keeps the variables of the others at their initial values.         *)
(***************************************************************************)
EXTENDS Integers, Sequences, FiniteSets, TLC

VARIABLES
    now,        \* datetime.utcnow(), in whole days
    reviews,    \* FlashcardReview rows of one (user, flashcard), oldest first
    prow,       \* a Progress row handed to update_mastery, and the row it leaves
    request,    \* the quiz form posted to submit_quiz (SpecGrade)
    quizzes,    \* Quiz rows, by id
    attempts,   \* QuizAttempt rows, in insertion order
    progress,   \* Progress rows of the user, in insertion order
    lastSubmit, \* what the last submit handler handed to quiz_results.html
    relationships,  \* ConceptRelationship rows, in insertion order
    generation, \* requests sent to the generation service so far
    returned,   \* the last call of a generation function and what it returned
    served,     \* what take_course_quiz handed to take_quiz.html
    lectureRows,    \* ids of the Lecture rows (SpecProgress)
    inflight,   \* requests being handled: id -> position
    concepts    \* Concept rows added by extract_concepts_from_lecture

vars == <<now, reviews, prow, request, quizzes, attempts, progress, lastSubmit,
          relationships, generation, returned, served, lectureRows, inflight,
          concepts>>

\* the state of the generation functions and of the request interleaving
genVars == <<relationships, generation, returned, served, lectureRows, inflight,
             concepts>>

(***************************************************************************)
(* Bounds of the model.                                                    *)
(***************************************************************************)
MaxReviews == 4     \* reviews of the card
MaxDay == 2         \* days the clock advances

(***************************************************************************)
(* Python floats (IEEE-754 binary64).  A float is the integer number of    *)
(* 2^-58 it is worth, held in three limbs <<a2, a1, a0>> of 20 bits:       *)
(* value = (a2 * 2^40 + a1 * 2^20 + a0) * 2^-58, with 0 <= a1, a0 < 2^20   *)
(* and a2 carrying the sign.  Every result is rounded to 53 significant    *)
(* bits, ties to even, as the hardware does.                               *)
(***************************************************************************)
LimbBase == 1048576      \* 2^20
MantissaBits == 53
OneHigh == 262144        \* 2^18: the float 1.0 is <<OneHigh, 0, 0>>

RECURSIVE BitLen(_)
BitLen(n) == IF n = 0 THEN 0 ELSE 1 + BitLen(n \div 2)

\* carry propagation: any three integers to the limb form
FNorm(x) ==
    LET a0 == x[3] % LimbBase
        c0 == x[3] \div LimbBase
        a1 == (x[2] + c0) % LimbBase
        c1 == (x[2] + c0) \div LimbBase
    IN  <<x[1] + c1, a1, a0>>

FNeg(x) == FNorm(<<-x[1], -x[2], -x[3]>>)

FLt(x, y) ==
    \/ x[1] < y[1]
    \/ x[1] = y[1] /\ x[2] < y[2]
    \/ x[1] = y[1] /\ x[2] = y[2] /\ x[3] < y[3]

\* round a non-negative exact value to 53 significant bits, ties to even
FRoundMag(m) ==
    LET len == IF m[1] > 0 THEN 40 + BitLen(m[1])
               ELSE IF m[2] > 0 THEN 20 + BitLen(m[2])
               ELSE BitLen(m[3])
        excess == len - MantissaBits
    IN  IF excess <= 0 THEN m
        ELSE LET u == 2 ^ excess
                 r == m[3] % u
                 kept == m[3] - r
                 up == \/ 2 * r > u
                       \/ 2 * r = u /\ (m[3] \div u) % 2 = 1
             IN  FNorm(<<m[1], m[2], kept + (IF up THEN u ELSE 0)>>)

FRound(x) == IF x[1] < 0 THEN FNeg(FRoundMag(FNeg(x))) ELSE FRoundMag(x)

\* float + float, float - float, int * float: exact result, then one rounding
FAdd(x, y) == FRound(FNorm(<<x[1] + y[1], x[2] + y[2], x[3] + y[3]>>))
FSub(x, y) == FRound(FNorm(<<x[1] - y[1], x[2] - y[2], x[3] - y[3]>>))
FMulInt(n, x) == FRound(FNorm(<<n * x[1], n * x[2], n * x[3]>>))

\* int(float): truncation toward zero
FloatToInt(x) ==
    IF x[1] < 0 THEN -(FNeg(x)[1] \div OneHigh) ELSE x[1] \div OneHigh

\* the float literals of learning.py, as the binary64 nearest to the decimal
F0_1 == <<26214, 419430, 419432>>       \* 0.1   0x1.999999999999ap-4
F0_08 == <<20971, 545259, 545260>>      \* 0.08  0x1.47ae147ae147bp-4
F0_02 == <<5242, 922746, 922747>>       \* 0.02  0x1.47ae147ae147bp-6
F1_3 == <<340787, 209715, 209728>>      \* 1.3   0x1.4cccccccccccdp+0
F2_5 == <<655360, 0, 0>>                \* 2.5   0x1.4p+1

(***************************************************************************)
(* FlashcardReview (models/learning.py).                                   *)
(***************************************************************************)
Qualities == 0..5

\* column defaults of a new FlashcardReview row
DefaultReview ==
    [ease_factor |-> F2_5, interval |-> 1, repetitions |-> 0,
     quality |-> 0, next_review_date |-> 0, reviewed_at |-> 0]

\* the ease update without the 1.3 floor
NextEaseNoFloor(r) ==
    LET k == 5 - r.quality
        delta == FSub(F0_1, FMulInt(k, FAdd(F0_08, FMulInt(k, F0_02))))
    IN  FAdd(r.ease_factor, delta)

\* the ease update applied to passed reviews only
NextEasePassedOnly(r) ==
    IF r.quality < 3 THEN r.ease_factor
    ELSE LET ef == NextEaseNoFloor(r)
         IN  IF FLt(ef, F1_3) THEN F1_3 ELSE ef

\* ease_factor + (0.1 - (5 - q) * (0.08 + (5 - q) * 0.02)), floored at 1.3
NextEase(r) ==
    LET k == 5 - r.quality
        delta == FSub(F0_1, FMulInt(k, FAdd(F0_08, FMulInt(k, F0_02))))
        ef == FAdd(r.ease_factor, delta)
    IN  IF FLt(ef, F1_3) THEN F1_3 ELSE ef

\* the interval computed from the ease factor after this review's update
NextIntervalNewEase(r) ==
    IF r.quality < 3 THEN 1
    ELSE IF r.repetitions = 0 THEN 1
    ELSE IF r.repetitions = 1 THEN 6
    ELSE FloatToInt(FMulInt(r.interval, NextEase(r)))

\* the (repetitions, interval) branch of calculate_next_review
NextInterval(r) ==
    IF r.quality < 3 THEN 1
    ELSE IF r.repetitions = 0 THEN 1
    ELSE IF r.repetitions = 1 THEN 6
    ELSE FloatToInt(FMulInt(r.interval, r.ease_factor))

NextRepetitions(r) ==
    IF r.quality < 3 THEN 0 ELSE r.repetitions + 1

\* calculate_next_review on row r at time t
calculate_next_review(r, t) ==
    LET iv == NextInterval(r)
    IN  [r EXCEPT !.repetitions = NextRepetitions(r),
                  !.interval = iv,
                  !.ease_factor = NextEase(r),
                  !.next_review_date = t + iv]

\* the scheduler state a new review starts from: the latest row, or defaults
PriorReview(rs) == IF rs = <<>> THEN DefaultReview ELSE rs[Len(rs)]

\* Flashcard.get_next_review_date: first row by next_review_date descending
get_next_review_date(rs, t) ==
    IF rs = <<>> THEN t
    ELSE LET i == CHOOSE i \in 1..Len(rs) :
                    \A j \in 1..Len(rs) :
                        rs[j].next_review_date <= rs[i].next_review_date
         IN  rs[i].next_review_date

\* Flashcard.is_due
is_due(rs, t) == t >= get_next_review_date(rs, t)

(***************************************************************************)
(* Scheduler actions.                                                      *)
(***************************************************************************)
QuizUnchanged ==
    UNCHANGED <<request, quizzes, attempts, progress, lastSubmit, genVars>>

\* one review event: a row with the given quality, then calculate_next_review
Review(q) ==
    /\ Len(reviews) < MaxReviews
    /\ LET r == [PriorReview(reviews) EXCEPT !.quality = q, !.reviewed_at = now]
       IN  reviews' = Append(reviews, calculate_next_review(r, now))
    /\ UNCHANGED <<now, prow>>
    /\ QuizUnchanged

\* the wall clock advances by a day
Tick ==
    /\ now < MaxDay
    /\ now' = now + 1
    /\ UNCHANGED <<reviews, prow>>
    /\ QuizUnchanged

NoRow == [none |-> TRUE]

\* nothing generated, nothing served, no request in flight
NoGeneration ==
    /\ relationships = <<>>
    /\ generation = 0
    /\ returned = NoRow
    /\ served = NoRow
    /\ lectureRows = {}
    /\ inflight = <<>>
    /\ concepts = <<>>

InitSched ==
    /\ now = 0
    /\ reviews = <<>>
    /\ prow = NoRow
    /\ request = NoRow
    /\ quizzes = <<>>
    /\ attempts = <<>>
    /\ progress = <<>>
    /\ lastSubmit = NoRow
    /\ NoGeneration

NextSched == (\E q \in Qualities : Review(q)) \/ Tick

SpecSched == InitSched /\ [][NextSched]_vars

(***************************************************************************)
(* Quiz scores and mastery levels are Python floats that only ever hold    *)
(* quotients of small integers; they are kept as exact fractions           *)
(* <<numerator, denominator>> in lowest terms.                             *)
(***************************************************************************)
RECURSIVE GCD(_, _)
GCD(a, b) == IF b = 0 THEN a ELSE GCD(b, a % b)

Rat(n, d) == LET g == GCD(n, d) IN <<n \div g, d \div g>>

RAdd(x, y) == Rat(x[1] * y[2] + y[1] * x[2], x[2] * y[2])
RMul(x, y) == Rat(x[1] * y[1], x[2] * y[2])
RDivInt(x, n) == Rat(x[1], x[2] * n)
RLe(x, y) == x[1] * y[2] <= y[1] * x[2]
RMin(x, y) == IF RLe(x, y) THEN x ELSE y

RZero == <<0, 1>>
R100 == <<100, 1>>
R0_6 == <<3, 5>>        \* the quiz weight 0.6

Min(a, b) == IF a <= b THEN a ELSE b

(***************************************************************************)
(* Progress (models/learning.py).                                          *)
(***************************************************************************)
\* column defaults of a new Progress row
DefaultProgress ==
    [viewed |-> FALSE, mastery_level |-> RZero, quiz_attempts |-> 0,
     quiz_avg_score |-> RZero, flashcard_reviews |-> 0]

\* update_mastery without the caps on the flashcard component and the total
update_mastery_uncapped(p) ==
    LET quiz_component == IF p.quiz_avg_score # RZero
                          THEN RMul(p.quiz_avg_score, R0_6) ELSE RZero
        flashcard_component == IF p.flashcard_reviews > 0
                               THEN p.flashcard_reviews * 5 ELSE 0
    IN  [p EXCEPT !.mastery_level =
                      RAdd(quiz_component, <<flashcard_component, 1>>)]

\* Progress.update_mastery
update_mastery(p) ==
    LET quiz_component == IF p.quiz_avg_score # RZero
                          THEN RMul(p.quiz_avg_score, R0_6) ELSE RZero
        flashcard_component == IF p.flashcard_reviews > 0
                               THEN Min(p.flashcard_reviews * 5, 40) ELSE 0
    IN  [p EXCEPT !.mastery_level =
                      RMin(RAdd(quiz_component, <<flashcard_component, 1>>), R100)]

(***************************************************************************)
(* update_mastery as a function of the row it is called on.                *)
(***************************************************************************)
MaxFlashcardReviews == 10   \* flashcard_reviews of the rows tried
ScoreSteps == 4             \* quiz_avg_score of the rows tried: k / ScoreSteps

MasteryInputs ==
    { [DefaultProgress EXCEPT !.quiz_avg_score = Rat(k, ScoreSteps),
                              !.flashcard_reviews = f,
                              !.quiz_attempts = 1] :
        k \in 0..(100 * ScoreSteps), f \in 0..MaxFlashcardReviews }

UpdateMastery ==
    /\ prow.out = NoRow
    /\ prow' = [prow EXCEPT !.out = update_mastery(prow.in)]
    /\ UNCHANGED <<now, reviews>>
    /\ QuizUnchanged

InitMastery ==
    /\ now = 0
    /\ reviews = <<>>
    /\ prow \in {[in |-> p, out |-> NoRow] : p \in MasteryInputs}
    /\ request = NoRow
    /\ quizzes = <<>>
    /\ attempts = <<>>
    /\ progress = <<>>
    /\ lastSubmit = NoRow
    /\ NoGeneration

NextMastery == UpdateMastery

SpecMastery == InitMastery /\ [][NextMastery]_vars

\* C6: update_mastery sets mastery_level to
\* min(100, quiz_avg_score * 0.6 + min(flashcard_reviews * 5, 40)) for every
\* quiz_avg_score in 0..100 and every flashcard_reviews >= 0.
C6_MasteryFormula ==
    (prow # NoRow /\ prow.out # NoRow) =>
        LET a == prow.in.quiz_avg_score
            f == prow.in.flashcard_reviews
            fc == IF 5 * f < 40 THEN 5 * f ELSE 40
            \* 5 * (0.6 a + fc) as an integer fraction over a's denominator
            total5 == 3 * a[1] + 5 * fc * a[2]
            m == prow.out.mastery_level
        IN  IF total5 >= 500 * a[2]
            THEN m = <<100, 1>>
            ELSE m[1] * 5 * a[2] = total5 * m[2]

\* C6 witness: a row whose flashcard component is capped at 40
C6_Witness ==
    /\ prow # NoRow
    /\ prow.out # NoRow
    /\ prow.in.flashcard_reviews = 9
    /\ prow.in.quiz_avg_score = <<50, 1>>
    /\ prow.out.mastery_level = <<70, 1>>

(***************************************************************************)
(* Quiz grading (app.py).  One user, one course; a dict is a function      *)
(* whose domain is the keys present.                                       *)
(***************************************************************************)
\* dict.get(key, default)
DictGet(d, k, default) == IF k \in DOMAIN d THEN d[k] ELSE default

\* str.upper on the answers that occur
Upper(str) ==
    CASE str = "a" -> "A"
      [] str = "b" -> "B"
      [] str = "e" -> "E"
      [] str = "x" -> "X"
      [] OTHER -> str

\* the correct_answer a generated item is stored with
StoredAnswer(q_data) == Upper(DictGet(q_data, "correct_answer", "A"))

\* the concepts of the course and the lecture each belongs to
Lectures == {1, 2}
ConceptLecture == <<1, 1, 2, 3, 4, 5, 5, 6>>

\* the Lecture rows: lecture id -> course id.  Course 1 is the course of the
\* quizzes; course 2 has lectures 3, 4 with concepts 4, 5; course 3 has the
\* single lecture 5 with concepts 6, 7; course 4 has lecture 6 with concept 8
\* and lecture 7 without concepts; course 5 has no lecture.
LectureCourse == <<1, 1, 2, 2, 3, 4, 4>>
Courses == 1..5

\* course.lectures.all() / Lecture.query.filter_by(course_id=...).all()
CourseLectures(course_id) ==
    {l \in DOMAIN LectureCourse : LectureCourse[l] = course_id}

\* Concept.query.filter_by(lecture_id=...).all(), as ids
LectureConcepts(lecture_id) ==
    {c \in DOMAIN ConceptLecture : ConceptLecture[c] = lecture_id}

\* the concepts of all the lectures of a course
CourseConcepts(course_id) ==
    {c \in DOMAIN ConceptLecture : ConceptLecture[c] \in CourseLectures(course_id)}

\* Quiz.query.filter(Quiz.concept_id.in_(concept_ids)) for a lecture
LectureQuestions(lecture_id) ==
    SelectSeq(quizzes, LAMBDA q : ConceptLecture[q.concept_id] = lecture_id)

\* Quiz.query.filter(Quiz.id.in_(question_ids))
QuestionsById(question_ids) ==
    SelectSeq(quizzes, LAMBDA q : q.id \in question_ids)

\* the submitted letter, compared as typed
SelectedAnswerAsTyped(question, answers) == DictGet(answers, question.id, "")

\* answers.get(question_key, '').upper()
SelectedAnswer(question, answers) == Upper(DictGet(answers, question.id, ""))

IsCorrect(question, answers) ==
    SelectedAnswer(question, answers) = question.correct_answer

\* the time of the whole quiz on every attempt
TimeShareWhole(time_taken, n) == time_taken

\* time_taken // len(questions) if len(questions) > 0 else 0
TimeShare(time_taken, n) == IF n > 0 THEN time_taken \div n ELSE 0

\* the QuizAttempt row of one question
Attempt(question, answers, time_taken, n) ==
    LET selected_answer == SelectedAnswer(question, answers)
        is_correct == IsCorrect(question, answers)
    IN  [quiz_id |-> question.id,
         selected_answer |-> IF selected_answer # "" THEN selected_answer ELSE "X",
         is_correct |-> is_correct,
         time_taken |-> TimeShare(time_taken, n),
         score |-> IF is_correct THEN 100 ELSE 0]

CorrectCount(questions, answers) ==
    Cardinality({i \in 1..Len(questions) : IsCorrect(questions[i], answers)})

\* the old average plus the new score, not halved
RunningAverageSum(old, score) ==
    IF old = RZero THEN score ELSE RAdd(old, score)

\* the running quiz average of a Progress row
RunningAverage(old, score) ==
    IF old = RZero THEN score ELSE RDivInt(RAdd(old, score), 2)

\* correct / total * 100
Percentage(correct, total) == Rat(100 * correct, total)

\* the Progress row of a handler, mutated: the row is filed under a concept
NewProgressOfConcept(lecture_id) ==
    [lecture_id |-> lecture_id, concept_id |-> 1] @@ DefaultProgress

\* Progress(user_id, lecture_id, viewed=False)
NewProgress(lecture_id) ==
    [lecture_id |-> lecture_id, concept_id |-> 0] @@ DefaultProgress

\* Progress.query.filter_by(user_id, lecture_id).first(): the index of the
\* oldest row of the lecture, 0 for None
FirstProgress(rows, lecture_id) ==
    LET found == {i \in DOMAIN rows : rows[i].lecture_id = lecture_id}
    IN  IF found = {} THEN 0
        ELSE CHOOSE i \in found : \A j \in found : i <= j

\* the Progress update of both submit handlers
RecordQuizScore(p, score) ==
    update_mastery([p EXCEPT !.quiz_attempts = @ + 1,
                             !.quiz_avg_score = RunningAverage(@, score)])

\* submit_quiz
SubmitQuiz(lecture_id, answers, time_taken) ==
    LET questions == LectureQuestions(lecture_id)
        n == Len(questions)
        correct_count == CorrectCount(questions, answers)
        score == IF n > 0 THEN Percentage(correct_count, n) ELSE RZero
    IN  /\ attempts' = attempts \o
              [i \in 1..n |-> Attempt(questions[i], answers, time_taken, n)]
        /\ progress' = [i \in DOMAIN progress |->
                           IF i = FirstProgress(progress, lecture_id)
                           THEN RecordQuizScore(progress[i], score)
                           ELSE progress[i]]
        /\ lastSubmit' = [route |-> "submit_quiz",
                          lecture_scores |-> [l \in {lecture_id} |-> score],
                          score |-> score,
                          correct_count |-> correct_count,
                          total_questions |-> n,
                          time_taken |-> time_taken]
        /\ UNCHANGED <<now, reviews, prow, quizzes, genVars>>

\* submit_course_quiz
SubmitCourseQuiz(answers, time_taken) ==
    LET questions == QuestionsById(DOMAIN answers)
        n == Len(questions)
        correct_count == CorrectCount(questions, answers)
        score == IF n > 0 THEN Percentage(correct_count, n) ELSE RZero
        OfLecture(l) ==
            SelectSeq(questions, LAMBDA q : ConceptLecture[q.concept_id] = l)
        graded == {l \in Lectures : Len(OfLecture(l)) > 0}
        lecture_score == [l \in graded |->
            Percentage(CorrectCount(OfLecture(l), answers), Len(OfLecture(l)))]
    IN  /\ attempts' = attempts \o
              [i \in 1..n |-> Attempt(questions[i], answers, time_taken, n)]
        /\ progress' = [i \in DOMAIN progress |->
                           IF \E l \in graded : i = FirstProgress(progress, l)
                           THEN RecordQuizScore(progress[i],
                                    lecture_score[progress[i].lecture_id])
                           ELSE progress[i]]
        /\ lastSubmit' = [route |-> "submit_course_quiz",
                          lecture_scores |-> lecture_score,
                          score |-> score,
                          correct_count |-> correct_count,
                          total_questions |-> n,
                          time_taken |-> time_taken]
        /\ UNCHANGED <<now, reviews, prow, quizzes, genVars>>

(***************************************************************************)
(* submit_quiz as a function of the stored quiz rows and the posted form.  *)
(***************************************************************************)
MaxQuestions == 5       \* quiz rows of the lecture

\* what the generation service returns for correct_answer: nothing, "b", ""
GeneratedItems ==
    {<<>>, [k \in {"correct_answer"} |-> "b"], [k \in {"correct_answer"} |-> ""]}

NoKey == "(no key)"
SubmittedAnswers == {"b", "B", NoKey}
TimeInputs == {61}

\* the form with the keys that were posted
Form(f) == [i \in {j \in DOMAIN f : f[j] # NoKey} |-> f[i]]

InitGrade ==
    /\ now = 0
    /\ reviews = <<>>
    /\ prow = NoRow
    /\ \E n \in 0..MaxQuestions :
         /\ quizzes \in
              {[i \in 1..n |-> [id |-> i, concept_id |-> 1,
                                correct_answer |-> StoredAnswer(g[i])]] :
                  g \in [1..n -> GeneratedItems]}
         /\ request \in
              {[pending |-> TRUE, lecture_id |-> 1,
                answers |-> Form(f), time_taken |-> t] :
                  f \in [1..n -> SubmittedAnswers], t \in TimeInputs}
    /\ attempts = <<>>
    /\ progress = <<NewProgress(1)>>
    /\ lastSubmit = NoRow
    /\ NoGeneration

HandleRequest ==
    /\ request.pending
    /\ SubmitQuiz(request.lecture_id, request.answers, request.time_taken)
    /\ request' = [request EXCEPT !.pending = FALSE]

NextGrade == HandleRequest

SpecGrade == InitGrade /\ [][NextGrade]_vars

(***************************************************************************)
(* Sequences of lecture and course-wide submissions.                       *)
(***************************************************************************)
MaxAttempts == 4        \* QuizAttempt rows before the last submission

CourseQuizzes ==
    <<[id |-> 1, concept_id |-> 1, correct_answer |-> "B"],
      [id |-> 2, concept_id |-> 2, correct_answer |-> "B"],
      [id |-> 3, concept_id |-> 3, correct_answer |-> "A"]>>

QuizIds(qs) == {qs[i].id : i \in 1..Len(qs)}

Forms(ids) == {Form(f) : f \in [ids -> SubmittedAnswers]}

InitQuiz ==
    /\ now = 0
    /\ reviews = <<>>
    /\ prow = NoRow
    /\ request = NoRow
    /\ quizzes = CourseQuizzes
    /\ attempts = <<>>
    /\ progress = [l \in Lectures |-> NewProgress(l)]
    /\ lastSubmit = NoRow
    /\ NoGeneration

LectureSubmission ==
    \E l \in Lectures, t \in TimeInputs :
        \E answers \in Forms(QuizIds(LectureQuestions(l))) :
            /\ Len(attempts) < MaxAttempts
            /\ SubmitQuiz(l, answers, t)
            /\ UNCHANGED request

CourseSubmission ==
    \E t \in TimeInputs :
        \E answers \in Forms(QuizIds(quizzes)) :
            /\ Len(attempts) < MaxAttempts
            /\ SubmitCourseQuiz(answers, t)
            /\ UNCHANGED request

NextQuiz == LectureSubmission \/ CourseSubmission

SpecQuiz == InitQuiz /\ [][NextQuiz]_vars

(***************************************************************************)
(* Quiz generation.  The generation service answers a request with an      *)
(* error (exception, timeout, text that is not JSON), with a JSON value    *)
(* that is not a list, or with a list of items; an item is the dict of the *)
(* keys it carries.  A database session is the table as the request sees   *)
(* it: the rows committed before plus its own uncommitted changes.         *)
(***************************************************************************)
JsonNull == "(null)"    \* the JSON value null, None in Python

ServiceError == [kind |-> "error"]
NotAList == [kind |-> "value"]
ItemList(items) == [kind |-> "list", items |-> items]

\* the id SQLite gives the next row of a table: one more than the largest
NextId(rows) ==
    IF rows = <<>> THEN 1
    ELSE 1 + (CHOOSE m \in QuizIds(rows) : \A k \in QuizIds(rows) : k <= m)

\* Quiz.query.filter(Quiz.concept_id.in_(concept_ids))
QuizzesOf(rows, concept_ids) ==
    SelectSeq(rows, LAMBDA q : q.concept_id \in concept_ids)

\* the test of an item, mutated: any concept_id passes
ValidQuestionAnyConcept(q_data, concept_ids) ==
    DictGet(q_data, "concept_id", 0) # 0

\* the test of an item: concept_id is given (None and 0 are not) and is a
\* concept of the lecture
ValidQuestion(q_data, concept_ids) ==
    /\ DictGet(q_data, "concept_id", 0) # 0
    /\ DictGet(q_data, "concept_id", 0) \in concept_ids

\* the loop over questions_data: an item that fails the test is skipped,
\* .upper() of None raises and leaves the loop
RECURSIVE SaveQuestions(_, _, _, _)
SaveQuestions(rows, saved, concept_ids, questions_data) ==
    IF questions_data = <<>>
    THEN [rows |-> rows, saved |-> saved, raised |-> FALSE]
    ELSE LET q_data == Head(questions_data)
             concept_id == DictGet(q_data, "concept_id", 0)
         IN  IF ~ValidQuestion(q_data, concept_ids)
             THEN SaveQuestions(rows, saved, concept_ids, Tail(questions_data))
             ELSE IF DictGet(q_data, "correct_answer", "A") = JsonNull
             THEN [rows |-> rows, saved |-> saved, raised |-> TRUE]
             ELSE LET quiz == [id |-> NextId(rows),
                               concept_id |-> concept_id,
                               correct_answer |-> StoredAnswer(q_data)]
                  IN  SaveQuestions(Append(rows, quiz), Append(saved, quiz),
                                    concept_ids, Tail(questions_data))

\* generate_quiz_from_lecture on the session's rows: the rows it leaves in
\* the session, whether it committed, what it returns and the requests it
\* sent
generate_quiz_from_lecture(rows, lecture_id, response) ==
    LET concept_ids == LectureConcepts(lecture_id)
        nothing == [rows |-> rows, commit |-> FALSE, result |-> <<>>]
    IN  IF lecture_id \notin DOMAIN LectureCourse \/ concept_ids = {}
        THEN nothing @@ [calls |-> 0]
        ELSE IF response.kind # "list"
        THEN nothing @@ [calls |-> 1]
        ELSE LET kept == SelectSeq(rows, LAMBDA q : q.concept_id \notin concept_ids)
                 run == SaveQuestions(kept, <<>>, concept_ids, response.items)
             IN  IF run.raised
                 THEN [rows |-> run.rows, commit |-> FALSE, result |-> <<>>,
                       calls |-> 1]
                 ELSE [rows |-> run.rows, commit |-> TRUE, result |-> run.saved,
                       calls |-> 1]

(***************************************************************************)
(* The generate-quiz route, request after request.                         *)
(***************************************************************************)
MaxItems == 2           \* items of a generated list
MaxGeneration == 1      \* requests sent to the generation service

UnknownConcept == 99

\* the items tried for a lecture: a well-formed one for each of its concepts
\* and, for one of them, an item without correct_answer, with a letter
\* outside a..d, with null; an item of an unknown concept; an item with no
\* concept_id
QuizItems(lecture_id) ==
    LET cs == LectureConcepts(lecture_id)
        c == CHOOSE x \in cs : \A y \in cs : x <= y
    IN  {[concept_id |-> x, correct_answer |-> "b"] : x \in cs}
        \cup {[concept_id |-> c],
              [concept_id |-> c, correct_answer |-> "e"],
              [concept_id |-> c, correct_answer |-> JsonNull],
              [concept_id |-> UnknownConcept, correct_answer |-> "b"],
              [correct_answer |-> "b"]}

ItemLists(items) ==
    UNION {[1..n -> items] : n \in 0..MaxItems}

QuizResponses(lecture_id) ==
    {ServiceError, NotAList}
        \cup {ItemList(l) : l \in ItemLists(QuizItems(lecture_id))}

\* the rows a request leaves in the table: what its last commit wrote
Committed(before, run) == IF run.commit THEN run.rows ELSE before

\* generate_lecture_quiz: POST /lectures/<id>/generate-quiz
GenerateLectureQuiz(lecture_id, response) ==
    LET run == generate_quiz_from_lecture(quizzes, lecture_id, response)
    IN  /\ quizzes' = Committed(quizzes, run)
        /\ generation' = generation + run.calls
        /\ returned' = [fn |-> "generate_quiz_from_lecture",
                        arg |-> lecture_id,
                        response |-> response,
                        result |-> run.result,
                        commit |-> run.commit]
        /\ UNCHANGED <<now, reviews, prow, request, attempts, progress,
                       lastSubmit, relationships, served, lectureRows, inflight,
                       concepts>>

GenLectures == {1, 2, 7}

InitGen ==
    /\ now = 0
    /\ reviews = <<>>
    /\ prow = NoRow
    /\ request = NoRow
    /\ quizzes = CourseQuizzes
    /\ attempts = <<>>
    /\ progress = <<>>
    /\ lastSubmit = NoRow
    /\ NoGeneration

\* a call that sends no request needs no response
NextGen ==
    \E l \in GenLectures :
        IF LectureConcepts(l) # {}
        THEN /\ generation < MaxGeneration
             /\ \E response \in QuizResponses(l) :
                    GenerateLectureQuiz(l, response)
        ELSE GenerateLectureQuiz(l, ServiceError)

SpecGen == InitGen /\ [][NextGen]_vars

(***************************************************************************)
(* take_course_quiz: GET /courses/<id>/quiz.                               *)
(***************************************************************************)
Max(a, b) == IF a >= b THEN a ELSE b

\* the elements of a set of ids, in increasing order
RECURSIVE SortedSeq(_)
SortedSeq(S) ==
    IF S = {} THEN <<>>
    ELSE LET m == CHOOSE x \in S : \A y \in S : x <= y
         IN  <<m>> \o SortedSeq(S \ {m})

\* random.sample(population, k): the elements at k distinct positions.  They
\* are listed in the order of the population: the order of a sample does not
\* outlive the shuffle of the list it is appended to.
Sample(population, k) ==
    {[i \in 1..k |-> population[SortedSeq(S)[i]]] :
        S \in {T \in SUBSET (1..Len(population)) : Cardinality(T) = k}}

\* x without its i-th element
Without(x, i) == SubSeq(x, 1, i - 1) \o SubSeq(x, i + 1, Len(x))

\* random.shuffle(x): any rearrangement
RECURSIVE Shuffle(_)
Shuffle(x) ==
    IF x = <<>> THEN {<<>>}
    ELSE UNION {{<<x[i]>> \o rest : rest \in Shuffle(Without(x, i))} :
                   i \in DOMAIN x}

\* the generation of a quiz for each lecture that has concepts, all in the
\* session of the request; a commit stores whatever the session holds
RECURSIVE GenerateForLectures(_, _, _)
GenerateForLectures(session, lectures, responses) ==
    IF lectures = <<>> THEN session
    ELSE IF LectureConcepts(Head(lectures)) = {}
    THEN GenerateForLectures(session, Tail(lectures), responses)
    ELSE LET run == generate_quiz_from_lecture(session.rows, Head(lectures),
                                               responses[Head(lectures)])
         IN  GenerateForLectures(
                 [rows |-> run.rows,
                  stored |-> IF run.commit THEN run.rows ELSE session.stored,
                  calls |-> session.calls + run.calls,
                  aborted |-> IF /\ ~run.commit
                                 /\ responses[Head(lectures)].kind = "list"
                              THEN session.aborted \cup {Head(lectures)}
                              ELSE session.aborted],
                 Tail(lectures), responses)

\* the cap on the questions taken from one lecture, mutated: the pool size
\* is not divided by the number of lectures
QuestionsPerLectureOfPool(pool_size, lecture_count) ==
    Max(2, Min(3, pool_size))

\* questions_per_lecture
QuestionsPerLecture(pool_size, lecture_count) ==
    Max(2, Min(3, pool_size \div lecture_count))

\* the loop that samples each lecture's questions: the lists it can build
RECURSIVE SelectQuestions(_, _, _)
SelectQuestions(lectures, all_questions, questions_per_lecture) ==
    IF lectures = <<>> THEN {<<>>}
    ELSE LET lecture_questions ==
                 QuizzesOf(all_questions, LectureConcepts(Head(lectures)))
             sample_size == Min(questions_per_lecture, Len(lecture_questions))
         IN  {s \o rest :
                 s \in Sample(lecture_questions, sample_size),
                 rest \in SelectQuestions(Tail(lectures), all_questions,
                                          questions_per_lecture)}

MaxLazyItems == 2       \* items of a list generated while a quiz is assembled

\* the answers tried when take_course_quiz generates: an error, or a list of
\* well-formed items, items with a null correct_answer and items of an
\* unknown concept
LazyResponses(lecture_id) ==
    LET c == CHOOSE x \in LectureConcepts(lecture_id) :
                 \A y \in LectureConcepts(lecture_id) : x <= y
        items == {[concept_id |-> c, correct_answer |-> "b"],
                  [concept_id |-> c, correct_answer |-> JsonNull],
                  [concept_id |-> UnknownConcept, correct_answer |-> "b"]}
    IN  {ServiceError}
            \cup {ItemList(l) : l \in UNION {[1..n -> items] : n \in 0..MaxLazyItems}}

\* what the generation service may answer for each lecture of a set
RECURSIVE LectureResponses(_)
LectureResponses(ls) ==
    IF ls = {} THEN {<<>>}
    ELSE LET l == CHOOSE x \in ls : TRUE
         IN  {(l :> r) @@ f :
                 r \in LazyResponses(l), f \in LectureResponses(ls \ {l})}

NotRendered(course_id) ==
    [course_id |-> course_id, rendered |-> FALSE, questions |-> <<>>,
     pool |-> <<>>, aborted |-> {}]

take_course_quiz(course_id) ==
    LET lectures == SortedSeq(CourseLectures(course_id))
        concept_ids == CourseConcepts(course_id)
        fresh == [rows |-> quizzes, stored |-> quizzes, calls |-> 0,
                  aborted |-> {}]
        generating == QuizzesOf(quizzes, concept_ids) = <<>>
        asked == IF generating
                 THEN {l \in CourseLectures(course_id) : LectureConcepts(l) # {}}
                 ELSE {}
    IN  IF course_id \notin Courses \/ lectures = <<>> \/ concept_ids = {}
        THEN /\ served' = NotRendered(course_id)
             /\ UNCHANGED <<quizzes, generation>>
        ELSE \E responses \in LectureResponses(asked) :
               LET session == IF generating
                              THEN GenerateForLectures(fresh, lectures, responses)
                              ELSE fresh
                   all_questions == QuizzesOf(session.rows, concept_ids)
                   questions_per_lecture ==
                       QuestionsPerLecture(Len(all_questions), Len(lectures))
               IN  /\ quizzes' = session.stored
                   /\ generation' = generation + session.calls
                   /\ IF all_questions = <<>>
                      THEN served' = [NotRendered(course_id) EXCEPT
                                         !.aborted = session.aborted]
                      ELSE \E selected \in SelectQuestions(lectures, all_questions,
                                                          questions_per_lecture) :
                             \E selected_questions \in Shuffle(selected) :
                               served' = [course_id |-> course_id,
                                          rendered |-> TRUE,
                                          questions |-> selected_questions,
                                          pool |-> all_questions,
                                          aborted |-> session.aborted]

(***************************************************************************)
(* take_course_quiz as a function of the quiz rows of course 1.            *)
(***************************************************************************)
MaxPerConcept == 2      \* quiz rows of a concept before the request

\* n1, n2, n3 rows for the concepts 1, 2, 3, in id order
QuizTable(n) ==
    [i \in 1..(n[1] + n[2] + n[3]) |->
        [id |-> i,
         concept_id |-> IF i <= n[1] THEN 1 ELSE IF i <= n[1] + n[2] THEN 2 ELSE 3,
         correct_answer |-> "B"]]

\* the courses asked for: two lectures, one lecture, a lecture without
\* concepts, no lecture, no such course
AssembleCourses == {1, 3, 4, 5, 9}

InitAssemble ==
    /\ now = 0
    /\ reviews = <<>>
    /\ prow = NoRow
    /\ request = NoRow
    /\ quizzes \in {QuizTable(n) : n \in [1..3 -> 0..MaxPerConcept]}
    /\ attempts = <<>>
    /\ progress = <<>>
    /\ lastSubmit = NoRow
    /\ NoGeneration

TakeCourseQuiz ==
    /\ served = NoRow
    /\ \E course_id \in AssembleCourses : take_course_quiz(course_id)
    /\ UNCHANGED <<now, reviews, prow, request, attempts, progress, lastSubmit,
                   relationships, returned, lectureRows, inflight, concepts>>

NextAssemble == TakeCourseQuiz

SpecAssemble == InitAssemble /\ [][NextAssemble]_vars

(***************************************************************************)
(* A course quiz served and then submitted.                                *)
(***************************************************************************)
InitCourse == InitQuiz

ServeCourseQuiz ==
    /\ take_course_quiz(1)
    /\ UNCHANGED <<now, reviews, prow, request, attempts, progress, lastSubmit,
                   relationships, returned, lectureRows, inflight, concepts>>

\* the user answers some of the served questions and posts the form
SubmitServed ==
    /\ served # NoRow
    /\ served.rendered
    /\ Len(attempts) < MaxAttempts
    /\ \E t \in TimeInputs :
         \E answers \in Forms(QuizIds(served.questions)) :
            /\ SubmitCourseQuiz(answers, t)
            /\ UNCHANGED request

NextCourse == ServeCourseQuiz \/ SubmitServed

SpecCourse == InitCourse /\ [][NextCourse]_vars

(***************************************************************************)
(* build_concept_relationships.                                            *)
(***************************************************************************)
NotJson == [kind |-> "text"]    \* text that json.loads rejects

\* the three early returns, mutated: one lecture is enough
BuildEligibleOneLecture(course_id) ==
    /\ course_id \in Courses
    /\ Cardinality(CourseLectures(course_id)) >= 1
    /\ Cardinality(CourseConcepts(course_id)) >= 2

\* the course exists, has two lectures or more and two concepts or more
BuildEligible(course_id) ==
    /\ course_id \in Courses
    /\ Cardinality(CourseLectures(course_id)) >= 2
    /\ Cardinality(CourseConcepts(course_id)) >= 2

\* the two tests of an item, mutated: related_concept_id is not looked up in
\* the course
ValidRelationshipAnyTarget(rel_data, concept_ids) ==
    LET concept_id == DictGet(rel_data, "concept_id", 0)
        related_id == DictGet(rel_data, "related_concept_id", 0)
    IN  /\ concept_id # 0 /\ related_id # 0
        /\ concept_id \in concept_ids

\* the two tests of an item: both ids are given (None and 0 are not), and
\* both are concepts of the course
ValidRelationship(rel_data, concept_ids) ==
    LET concept_id == DictGet(rel_data, "concept_id", 0)
        related_id == DictGet(rel_data, "related_concept_id", 0)
    IN  /\ concept_id # 0 /\ related_id # 0
        /\ concept_id \in concept_ids /\ related_id \in concept_ids

\* the loop over relationships_data
RECURSIVE SaveRelationships(_, _, _, _)
SaveRelationships(rows, saved, concept_ids, relationships_data) ==
    IF relationships_data = <<>>
    THEN [rows |-> rows, saved |-> saved]
    ELSE LET rel_data == Head(relationships_data)
         IN  IF ~ValidRelationship(rel_data, concept_ids)
             THEN SaveRelationships(rows, saved, concept_ids,
                                    Tail(relationships_data))
             ELSE LET relationship ==
                          [id |-> NextId(rows),
                           concept_id |-> rel_data.concept_id,
                           related_concept_id |-> rel_data.related_concept_id,
                           relationship_type |->
                               DictGet(rel_data, "relationship_type", "related")]
                  IN  SaveRelationships(Append(rows, relationship),
                          Append(saved, relationship), concept_ids,
                          Tail(relationships_data))

\* build_concept_relationships, mutated: the delete outlives a commit that
\* fails
build_concept_relationships_DeleteKept(rows, course_id, response) ==
    LET concept_ids == CourseConcepts(course_id)
        nothing == [rows |-> rows, commit |-> FALSE, result |-> <<>>]
    IN  IF ~BuildEligible(course_id)
        THEN nothing @@ [calls |-> 0, raised |-> FALSE]
        ELSE IF response.kind = "error"
        THEN nothing @@ [calls |-> 1, raised |-> TRUE]
        ELSE IF response.kind # "list"
        THEN nothing @@ [calls |-> 1, raised |-> FALSE]
        ELSE LET kept == SelectSeq(rows, LAMBDA r : r.concept_id \notin concept_ids)
                 run == SaveRelationships(kept, <<>>, concept_ids, response.items)
             IN  IF \E i \in DOMAIN run.saved :
                        run.saved[i].relationship_type = JsonNull
                 THEN [rows |-> kept, commit |-> TRUE, result |-> <<>>,
                       calls |-> 1, raised |-> FALSE]
                 ELSE [rows |-> run.rows, commit |-> TRUE, result |-> run.saved,
                       calls |-> 1, raised |-> FALSE]

\* build_concept_relationships on the session's rows: the rows it leaves,
\* whether it committed, what it returns, the requests it sent and whether
\* it raised.  The handler of json.JSONDecodeError names the module json,
\* which line 197 binds: an exception of the request itself (line 178)
\* reaches the except clauses with json unbound and leaves the function as
\* an UnboundLocalError.  A relationship_type of None fails the NOT NULL
\* constraint at the commit, which rolls the transaction back.
build_concept_relationships(rows, course_id, response) ==
    LET concept_ids == CourseConcepts(course_id)
        nothing == [rows |-> rows, commit |-> FALSE, result |-> <<>>]
    IN  IF ~BuildEligible(course_id)
        THEN nothing @@ [calls |-> 0, raised |-> FALSE]
        ELSE IF response.kind = "error"
        THEN nothing @@ [calls |-> 1, raised |-> TRUE]
        ELSE IF response.kind # "list"
        THEN nothing @@ [calls |-> 1, raised |-> FALSE]
        ELSE LET kept == SelectSeq(rows, LAMBDA r : r.concept_id \notin concept_ids)
                 run == SaveRelationships(kept, <<>>, concept_ids, response.items)
             IN  IF \E i \in DOMAIN run.saved :
                        run.saved[i].relationship_type = JsonNull
                 THEN nothing @@ [calls |-> 1, raised |-> FALSE]
                 ELSE [rows |-> run.rows, commit |-> TRUE, result |-> run.saved,
                       calls |-> 1, raised |-> FALSE]

(***************************************************************************)
(* build_concept_relationships, call after call.                           *)
(***************************************************************************)
\* the items tried for a course, a and b being two of its concepts and x a
\* concept of another course: a typed one, one without a type, one with a
\* type outside the four, one with a null type, one towards x, one without
\* concept_id
RelationshipItems(course_id) ==
    LET cs == CourseConcepts(course_id)
        a == CHOOSE c \in cs : \A d \in cs : c <= d
        b == CHOOSE c \in cs \ {a} : \A d \in cs \ {a} : c <= d
        x == CHOOSE c \in DOMAIN ConceptLecture \ cs :
                 \A d \in DOMAIN ConceptLecture \ cs : c <= d
    IN  {[concept_id |-> a, related_concept_id |-> b,
          relationship_type |-> "prerequisite"],
         [concept_id |-> b, related_concept_id |-> a],
         [concept_id |-> a, related_concept_id |-> b,
          relationship_type |-> "depends_on"],
         [concept_id |-> a, related_concept_id |-> b,
          relationship_type |-> JsonNull],
         [concept_id |-> a, related_concept_id |-> x,
          relationship_type |-> "related"],
         [related_concept_id |-> b, relationship_type |-> "builds_on"]}

RelationshipResponses(course_id) ==
    {ServiceError, NotJson, NotAList}
        \cup {ItemList(l) : l \in ItemLists(RelationshipItems(course_id))}

\* the courses built: course 1, the courses with an early return and a
\* course that does not exist; course 2 was built before
BuildCourses == {1, 3, 4, 5, 9}

\* the tables the calls start from: empty, after a build of course 2, after
\* builds of course 2 and of course 1
RelationshipTables ==
    LET built2 == [id |-> 1, concept_id |-> 4, related_concept_id |-> 5,
                   relationship_type |-> "prerequisite"]
        built1 == [id |-> 2, concept_id |-> 1, related_concept_id |-> 2,
                   relationship_type |-> "related"]
    IN  {<<>>, <<built2>>, <<built2, built1>>}

BuildRelationships(course_id, response) ==
    LET run == build_concept_relationships(relationships, course_id, response)
    IN  /\ relationships' = Committed(relationships, run)
        /\ generation' = generation + run.calls
        /\ returned' = [fn |-> "build_concept_relationships",
                        arg |-> course_id,
                        response |-> response,
                        result |-> run.result,
                        commit |-> run.commit,
                        raised |-> run.raised]
        /\ UNCHANGED <<now, reviews, prow, request, quizzes, attempts, progress,
                       lastSubmit, served, lectureRows, inflight, concepts>>

InitRel ==
    /\ now = 0
    /\ reviews = <<>>
    /\ prow = NoRow
    /\ request = NoRow
    /\ quizzes = <<>>
    /\ attempts = <<>>
    /\ progress = <<>>
    /\ lastSubmit = NoRow
    /\ relationships \in RelationshipTables
    /\ generation = 0
    /\ returned = NoRow
    /\ served = NoRow
    /\ lectureRows = {}
    /\ inflight = <<>>
    /\ concepts = <<>>

\* a call that sends no request needs no response
NextRel ==
    \E course_id \in BuildCourses :
        IF BuildEligible(course_id)
        THEN /\ generation < MaxGeneration
             /\ \E response \in RelationshipResponses(course_id) :
                    BuildRelationships(course_id, response)
        ELSE BuildRelationships(course_id, ServiceError)

SpecRel == InitRel /\ [][NextRel]_vars

(***************************************************************************)
(* upload_lecture and view_lecture requests served concurrently, each with *)
(* its own session.  A request advances from one commit to the next; what  *)
(* it read before a commit is what it acts on after it.                    *)
(***************************************************************************)
MaxRequests == 3        \* requests started

ProgressUnchanged ==
    UNCHANGED <<now, reviews, prow, request, quizzes, attempts, lastSubmit,
                relationships, generation, returned, served, concepts>>

\* the id of the next Lecture row
NextLectureId == Cardinality(lectureRows) + 1

\* upload_lecture, up to the commit of the Lecture row
UploadCommitLecture ==
    /\ Len(inflight) < MaxRequests
    /\ lectureRows' = lectureRows \cup {NextLectureId}
    /\ inflight' = Append(inflight, [route |-> "upload_lecture",
                                     pc |-> "add_progress",
                                     lecture_id |-> NextLectureId,
                                     progress |-> 0])
    /\ UNCHANGED progress
    /\ ProgressUnchanged

\* upload_lecture, the commit of the initial Progress row; what follows in
\* the handler touches neither Lecture nor Progress rows
UploadCommitProgress(r) ==
    /\ inflight[r].route = "upload_lecture"
    /\ inflight[r].pc = "add_progress"
    /\ progress' = Append(progress, NewProgress(inflight[r].lecture_id))
    /\ inflight' = [inflight EXCEPT ![r].pc = "done",
                                    ![r].progress = Len(progress) + 1]
    /\ UNCHANGED lectureRows
    /\ ProgressUnchanged

\* view_lecture, up to the test of the Progress row it looked up
ViewQuery(lecture_id) ==
    /\ Len(inflight) < MaxRequests
    /\ lecture_id \in lectureRows
    /\ LET found == FirstProgress(progress, lecture_id)
       IN  inflight' = Append(inflight,
               [route |-> "view_lecture",
                pc |-> IF found = 0 THEN "add_progress" ELSE "mark_viewed",
                lecture_id |-> lecture_id,
                progress |-> found])
    /\ UNCHANGED <<lectureRows, progress>>
    /\ ProgressUnchanged

\* view_lecture, the commit of the Progress row it found missing
ViewCommitProgress(r) ==
    /\ inflight[r].route = "view_lecture"
    /\ inflight[r].pc = "add_progress"
    /\ progress' = Append(progress, NewProgress(inflight[r].lecture_id))
    /\ inflight' = [inflight EXCEPT ![r].pc = "mark_viewed",
                                    ![r].progress = Len(progress) + 1]
    /\ UNCHANGED lectureRows
    /\ ProgressUnchanged

\* view_lecture, mark_viewed and the last commit
ViewCommitViewed(r) ==
    /\ inflight[r].route = "view_lecture"
    /\ inflight[r].pc = "mark_viewed"
    /\ progress' = [progress EXCEPT ![inflight[r].progress].viewed = TRUE]
    /\ inflight' = [inflight EXCEPT ![r].pc = "done"]
    /\ UNCHANGED lectureRows
    /\ ProgressUnchanged

InitProgress ==
    /\ now = 0
    /\ reviews = <<>>
    /\ prow = NoRow
    /\ request = NoRow
    /\ quizzes = <<>>
    /\ attempts = <<>>
    /\ progress = <<>>
    /\ lastSubmit = NoRow
    /\ NoGeneration

NextProgress ==
    \/ UploadCommitLecture
    \/ \E r \in DOMAIN inflight : UploadCommitProgress(r)
    \/ \E l \in lectureRows : ViewQuery(l)
    \/ \E r \in DOMAIN inflight : ViewCommitProgress(r)
    \/ \E r \in DOMAIN inflight : ViewCommitViewed(r)

SpecProgress == InitProgress /\ [][NextProgress]_vars

(***************************************************************************)
(* Course.get_weak_concepts and Course.get_strong_concepts                 *)
(* (models/course.py), over Concept.get_mastery_level (models/concept.py). *)
(* The lists are functions of the concept-level Progress rows.             *)
(***************************************************************************)
\* Progress(concept_id=...): a Progress row of a concept, no lecture
ConceptProgress(concept_id, mastery_level) ==
    [lecture_id |-> 0, concept_id |-> concept_id]
        @@ [DefaultProgress EXCEPT !.mastery_level = mastery_level]

\* Concept.get_mastery_level: progress_records.filter_by(user_id).first()
get_mastery_level(rows, concept_id) ==
    LET found == {i \in DOMAIN rows : rows[i].concept_id = concept_id}
    IN  IF found = {} THEN RZero
        ELSE rows[CHOOSE i \in found : \A j \in found : i <= j].mastery_level

RLt(x, y) == ~RLe(y, x)

\* for lecture in self.lectures: for concept in lecture.concepts
RECURSIVE ConceptsInOrder(_)
ConceptsInOrder(lectures) ==
    IF lectures = <<>> THEN <<>>
    ELSE LET ids == SortedSeq(LectureConcepts(Head(lectures)))
         IN  [i \in DOMAIN ids |-> [concept |-> ids[i],
                                     lecture |-> Head(lectures)]]
             \o ConceptsInOrder(Tail(lectures))

\* list.sort is stable: an element goes behind the elements that do not
\* sort after it, also with reverse=True
InsertByMasteryUnsorted(sorted, x, reverse) == Append(sorted, x)

InsertByMastery(sorted, x, reverse) ==
    LET before == {i \in DOMAIN sorted :
                     IF reverse THEN RLe(x.mastery, sorted[i].mastery)
                     ELSE RLe(sorted[i].mastery, x.mastery)}
        p == Cardinality(before)
    IN  SubSeq(sorted, 1, p) \o <<x>> \o SubSeq(sorted, p + 1, Len(sorted))

RECURSIVE SortByMastery(_, _, _)
SortByMastery(sorted, items, reverse) ==
    IF items = <<>> THEN sorted
    ELSE SortByMastery(InsertByMastery(sorted, Head(items), reverse),
                       Tail(items), reverse)

\* the dicts of the concepts of a course, in loop order
WithMastery(rows, course_id) ==
    LET all == ConceptsInOrder(SortedSeq(CourseLectures(course_id)))
    IN  [i \in DOMAIN all |-> [concept |-> all[i].concept,
                               mastery |-> get_mastery_level(rows, all[i].concept),
                               lecture |-> all[i].lecture]]

get_weak_concepts(rows, course_id, threshold) ==
    LET weak(d) == RLt(d.mastery, Rat(threshold, 1))
    IN  SortByMastery(<<>>, SelectSeq(WithMastery(rows, course_id), weak), FALSE)

get_strong_concepts(rows, course_id, threshold) ==
    LET strong(d) == RLe(Rat(threshold, 1), d.mastery)
    IN  SortByMastery(<<>>, SelectSeq(WithMastery(rows, course_id), strong), TRUE)

MasterySteps == 4       \* mastery levels are the multiples of 100/MasterySteps
Thresholds == {60, 80}  \* the defaults of the two methods
ListedCourses == {1, 3, 5}

\* the tables of concept-level rows: at most one row for each concept of
\* course 1, none for the concepts of the other courses
RECURSIVE ConceptTables(_)
ConceptTables(ids) ==
    IF ids = <<>> THEN {<<>>}
    ELSE LET rest == ConceptTables(Tail(ids))
         IN  rest \cup
             { <<ConceptProgress(Head(ids), Rat(100 * k, MasterySteps))>> \o t :
                 k \in 0..MasterySteps, t \in rest }

GetWeakConcepts(course_id, threshold) ==
    /\ returned' = [fn |-> "get_weak_concepts", arg |-> course_id,
                    threshold |-> threshold,
                    result |-> get_weak_concepts(progress, course_id, threshold)]
    /\ UNCHANGED <<now, reviews, prow, request, quizzes, attempts, progress,
                   lastSubmit, relationships, generation, served, lectureRows,
                   inflight, concepts>>

GetStrongConcepts(course_id, threshold) ==
    /\ returned' = [fn |-> "get_strong_concepts", arg |-> course_id,
                    threshold |-> threshold,
                    result |-> get_strong_concepts(progress, course_id,
                                                   threshold)]
    /\ UNCHANGED <<now, reviews, prow, request, quizzes, attempts, progress,
                   lastSubmit, relationships, generation, served, lectureRows,
                   inflight, concepts>>

InitList ==
    /\ now = 0
    /\ reviews = <<>>
    /\ prow = DefaultProgress
    /\ request = NoRow
    /\ quizzes = <<>>
    /\ attempts = <<>>
    /\ progress \in ConceptTables(SortedSeq(CourseConcepts(1)))
    /\ lastSubmit = NoRow
    /\ relationships = <<>>
    /\ generation = 0
    /\ returned = NoRow
    /\ served = NoRow
    /\ lectureRows = {}
    /\ inflight = <<>>
    /\ concepts = <<>>

NextList ==
    \/ \E course_id \in ListedCourses, threshold \in Thresholds :
         GetWeakConcepts(course_id, threshold)
    \/ \E course_id \in ListedCourses, threshold \in Thresholds :
         GetStrongConcepts(course_id, threshold)

SpecList == InitList /\ [][NextList]_vars

(***************************************************************************)
(* generate_course_quiz (app.py): one combined quiz over the selected      *)
(* concepts of a course, kept once it exists.                              *)
(***************************************************************************)
\* Concept.difficulty of the concepts 1..8
ConceptDifficulty ==
    <<"beginner", "intermediate", "advanced", "intermediate",
      "beginner", "easy", "advanced", "beginner">>

\* difficulty_priority.get(c.difficulty, 99)
DifficultyPriority(difficulty) ==
    CASE difficulty = "intermediate" -> 1
      [] difficulty = "advanced" -> 2
      [] difficulty = "beginner" -> 3
      [] OTHER -> 99

\* sorted(lecture_concepts, key=priority)[:questions_per_lecture], for each
\* lecture of the course: sorted() is stable, concepts of equal priority stay
\* in the order of the query
SelectedConcepts(course_id, questions_per_lecture) ==
    LET prio(c) == DifficultyPriority(ConceptDifficulty[c])
        ahead(c) == {d \in LectureConcepts(ConceptLecture[c]) :
                       \/ prio(d) < prio(c)
                       \/ prio(d) = prio(c) /\ d < c}
    IN  {c \in CourseConcepts(course_id) :
           Cardinality(ahead(c)) < questions_per_lecture}

\* Quiz.query.filter(Quiz.concept_id.in_(concept_ids)).first()
CacheHit(rows, concept_ids) == QuizzesOf(rows, concept_ids) # <<>>

\* generate_course_quiz on the session's rows: the rows it leaves in the
\* session, whether it committed, what it returns, the requests it sent and
\* whether it took the path of the existing quiz
generate_course_quiz(rows, course_id, questions_per_lecture, response) ==
    LET concept_ids == SelectedConcepts(course_id, questions_per_lecture)
        nothing == [rows |-> rows, commit |-> FALSE, result |-> <<>>,
                    hit |-> FALSE]
    IN  IF \/ course_id \notin Courses
           \/ CourseLectures(course_id) = {}
           \/ CourseConcepts(course_id) = {}
           \/ concept_ids = {}
        THEN nothing @@ [calls |-> 0]
        ELSE IF CacheHit(rows, concept_ids)
        THEN [rows |-> rows, commit |-> FALSE,
              result |-> QuizzesOf(rows, concept_ids), hit |-> TRUE,
              calls |-> 0]
        ELSE IF response.kind # "list"
        THEN nothing @@ [calls |-> 1]
        ELSE LET run == SaveQuestions(rows, <<>>, concept_ids, response.items)
             IN  IF run.raised
                 THEN [rows |-> run.rows, commit |-> FALSE, result |-> <<>>,
                       hit |-> FALSE, calls |-> 1]
                 ELSE [rows |-> run.rows, commit |-> TRUE, result |-> run.saved,
                       hit |-> FALSE, calls |-> 1]

\* the items a combined list is made of: a well-formed item for each concept
\* of the course, one without a usable answer, one of an unknown concept
CourseQuizItems(course_id) ==
    LET cs == CourseConcepts(course_id)
        c == CHOOSE x \in cs : \A y \in cs : x >= y
    IN  {[concept_id |-> x, correct_answer |-> "b"] : x \in cs}
        \cup {[concept_id |-> c, correct_answer |-> JsonNull],
              [concept_id |-> UnknownConcept, correct_answer |-> "b"]}

CourseQuizResponses(course_id) ==
    {ServiceError, NotAList}
        \cup {ItemList(l) : l \in ItemLists(CourseQuizItems(course_id))}

GenerateCourseQuiz(course_id, questions_per_lecture, response) ==
    LET run == generate_course_quiz(quizzes, course_id, questions_per_lecture,
                                    response)
    IN  /\ quizzes' = Committed(quizzes, run)
        /\ generation' = generation + run.calls
        /\ returned' = [fn |-> "generate_course_quiz",
                        arg |-> course_id,
                        concept_ids |-> SelectedConcepts(course_id,
                                                         questions_per_lecture),
                        response |-> response,
                        result |-> run.result,
                        commit |-> run.commit,
                        hit |-> run.hit]
        /\ UNCHANGED <<now, reviews, prow, request, attempts, progress,
                       lastSubmit, relationships, served, lectureRows, inflight,
                       concepts>>

CourseQuizCourses == {1, 3, 4, 5, 9}
QuestionsPerLectureArgs == {1, 2}   \* 2 is the default

\* the Quiz table holds at most one row for each concept of course 1
InitCourseGen ==
    /\ now = 0
    /\ reviews = <<>>
    /\ prow = NoRow
    /\ request = NoRow
    /\ quizzes \in {QuizTable(n) : n \in [1..3 -> 0..1]}
    /\ attempts = <<>>
    /\ progress = <<>>
    /\ lastSubmit = NoRow
    /\ NoGeneration

\* a call that sends no request needs no response
NextCourseGen ==
    \E course_id \in CourseQuizCourses, k \in QuestionsPerLectureArgs :
        IF generate_course_quiz(quizzes, course_id, k, ServiceError).calls > 0
        THEN /\ generation < MaxGeneration
             /\ \E response \in CourseQuizResponses(course_id) :
                    GenerateCourseQuiz(course_id, k, response)
        ELSE GenerateCourseQuiz(course_id, k, ServiceError)

SpecCourseGen == InitCourseGen /\ [][NextCourseGen]_vars

(***************************************************************************)
(* extract_concepts_from_lecture (app.py): the Concept rows of a lecture.  *)
(***************************************************************************)
\* the loop over concepts_data: every item becomes a pending Concept row
RECURSIVE SaveConcepts(_, _, _, _)
SaveConcepts(rows, saved, lecture_id, concepts_data) ==
    IF concepts_data = <<>> THEN [rows |-> rows, saved |-> saved]
    ELSE LET concept_data == Head(concepts_data)
             concept == [id |-> NextId(rows),
                         lecture_id |-> lecture_id,
                         name |-> DictGet(concept_data, "name", "Untitled"),
                         difficulty |-> DictGet(concept_data, "difficulty",
                                                "intermediate")]
         IN  SaveConcepts(Append(rows, concept), Append(saved, concept),
                          lecture_id, Tail(concepts_data))

\* Concept.query.filter_by(lecture_id=lecture_id)
ConceptsOf(rows, lecture_id) ==
    SelectSeq(rows, LAMBDA c : c.lecture_id = lecture_id)

\* extract_concepts_from_lecture on the session's rows.  No statement of the
\* function deletes a row.  A response that is no list of objects raises in
\* or before the loop; a null name is refused by the NOT NULL column when
\* the commit flushes the batch.
extract_concepts_from_lecture(rows, lecture_id, response) ==
    LET nothing == [rows |-> rows, commit |-> FALSE, result |-> <<>>,
                    calls |-> 1]
    IN  IF response.kind # "list" THEN nothing
        ELSE LET run == SaveConcepts(rows, <<>>, lecture_id, response.items)
             IN  IF \E i \in DOMAIN run.saved : run.saved[i].name = JsonNull
                 THEN nothing
                 ELSE [rows |-> run.rows, commit |-> TRUE,
                       result |-> run.saved, calls |-> 1]

MaxExtractions == 2     \* runs of the extraction

\* the items of a response: a named concept, one without a name, a null name
ConceptItems ==
    {[name |-> "a", difficulty |-> "beginner"],
     [difficulty |-> "advanced"],
     [name |-> JsonNull]}

ConceptResponses ==
    {ServiceError, NotJson, NotAList}
        \cup {ItemList(l) : l \in ItemLists(ConceptItems)}

ExtractConcepts(lecture_id, response) ==
    LET run == extract_concepts_from_lecture(concepts, lecture_id, response)
    IN  /\ concepts' = Committed(concepts, run)
        /\ generation' = generation + run.calls
        /\ returned' = [fn |-> "extract_concepts_from_lecture",
                        arg |-> lecture_id,
                        response |-> response,
                        result |-> run.result,
                        commit |-> run.commit]
        /\ UNCHANGED <<now, reviews, prow, request, quizzes, attempts, progress,
                       lastSubmit, relationships, served, lectureRows, inflight>>

InitExtract ==
    /\ now = 0
    /\ reviews = <<>>
    /\ prow = NoRow
    /\ request = NoRow
    /\ quizzes = <<>>
    /\ attempts = <<>>
    /\ progress = <<>>
    /\ lastSubmit = NoRow
    /\ NoGeneration

NextExtract ==
    /\ generation < MaxExtractions
    /\ \E lecture_id \in Lectures, response \in ConceptResponses :
           ExtractConcepts(lecture_id, response)

SpecExtract == InitExtract /\ [][NextExtract]_vars

(***************************************************************************)
(* build_concept_relationships, requests for one course side by side.      *)
(* Each request has its own session and connection to the SQLite file      *)
(* (app.py:20).  The bulk delete opens the write transaction of a request  *)
(* and takes the write lock of the database; the commit flushes the        *)
(* inserts and releases it.  A delete that finds the lock taken waits for  *)
(* it, or gives up with "database is locked".                              *)
(***************************************************************************)
MaxBuilds == 2          \* build requests started

RebuildCourse == 1

\* the lists the service answers with: the rebuilds differ in their results
RebuildResponses ==
    LET typed == [concept_id |-> 1, related_concept_id |-> 2,
                  relationship_type |-> "prerequisite"]
        untyped == [concept_id |-> 2, related_concept_id |-> 1]
        outside == [concept_id |-> 1, related_concept_id |-> 4,
                    relationship_type |-> "related"]
        null == [concept_id |-> 3, related_concept_id |-> 1,
                 relationship_type |-> JsonNull]
    IN  {ItemList(<<>>), ItemList(<<typed>>), ItemList(<<untyped, outside>>),
         ItemList(<<typed, untyped>>), ItemList(<<typed, null>>)}

\* the write lock is free for a request: no transaction is open, mutated
WriteLockedNever(r) == FALSE

\* another request holds the write lock: its delete ran, its commit did not
WriteLocked(r) ==
    \E s \in DOMAIN inflight : s # r /\ inflight[s].pc = "commit"

RebuildUnchanged ==
    UNCHANGED <<now, reviews, prow, request, quizzes, attempts, progress,
                lastSubmit, returned, served, lectureRows, concepts>>

\* the handler up to the parsed response (lines 103-202); the response is a
\* JSON list
BuildRequest(response) ==
    /\ Len(inflight) < MaxBuilds
    /\ BuildEligible(RebuildCourse)
    /\ inflight' = Append(inflight,
           [route |-> "build_concept_relationships",
            pc |-> "delete",
            response |-> response,
            deleted |-> {},
            finished |-> Cardinality({s \in DOMAIN inflight :
                                         inflight[s].pc = "done"}),
            committed |-> FALSE])
    /\ generation' = generation + 1
    /\ UNCHANGED relationships
    /\ RebuildUnchanged

\* the bulk delete (lines 207-209): the rows of the course that are in the
\* table now are deleted in the transaction of the request
BuildDelete(r) ==
    /\ inflight[r].route = "build_concept_relationships"
    /\ inflight[r].pc = "delete"
    /\ ~WriteLocked(r)
    /\ inflight' = [inflight EXCEPT
           ![r].pc = "commit",
           ![r].deleted =
               QuizIds(SelectSeq(relationships,
                   LAMBDA row : row.concept_id \in CourseConcepts(RebuildCourse)))]
    /\ UNCHANGED <<relationships, generation>>
    /\ RebuildUnchanged

\* the bulk delete gives up waiting for the lock: OperationalError, caught
\* at line 248
BuildLocked(r) ==
    /\ inflight[r].route = "build_concept_relationships"
    /\ inflight[r].pc = "delete"
    /\ WriteLocked(r)
    /\ inflight' = [inflight EXCEPT ![r].pc = "done"]
    /\ UNCHANGED <<relationships, generation>>
    /\ RebuildUnchanged

\* the loop and the commit (lines 213-234): the delete and the inserts
\* reach the table together; a null relationship_type fails the flush and
\* the transaction is rolled back
BuildCommit(r) ==
    /\ inflight[r].route = "build_concept_relationships"
    /\ inflight[r].pc = "commit"
    /\ LET kept == SelectSeq(relationships,
                       LAMBDA row : row.id \notin inflight[r].deleted)
           run == SaveRelationships(kept, <<>>, CourseConcepts(RebuildCourse),
                                    inflight[r].response.items)
           refused == \E i \in DOMAIN run.saved :
                          run.saved[i].relationship_type = JsonNull
       IN  /\ relationships' = IF refused THEN relationships ELSE run.rows
           /\ inflight' = [inflight EXCEPT ![r].pc = "done",
                                           ![r].committed = ~refused]
    /\ UNCHANGED generation
    /\ RebuildUnchanged

InitRebuild ==
    /\ now = 0
    /\ reviews = <<>>
    /\ prow = NoRow
    /\ request = NoRow
    /\ quizzes = <<>>
    /\ attempts = <<>>
    /\ progress = <<>>
    /\ lastSubmit = NoRow
    /\ relationships \in RelationshipTables
    /\ generation = 0
    /\ returned = NoRow
    /\ served = NoRow
    /\ lectureRows = {}
    /\ inflight = <<>>
    /\ concepts = <<>>

NextRebuild ==
    \/ \E response \in RebuildResponses : BuildRequest(response)
    \/ \E r \in DOMAIN inflight : BuildDelete(r)
    \/ \E r \in DOMAIN inflight : BuildLocked(r)
    \/ \E r \in DOMAIN inflight : BuildCommit(r)

SpecRebuild == InitRebuild /\ [][NextRebuild]_vars

(***************************************************************************)
(* submit_quiz, requests of one user side by side.  The handler commits    *)
(* the attempts (line 1201), then reads the Progress row (lines 1207-1210) *)
(* outside any write transaction, changes the loaded object and commits    *)
(* (lines 1212-1220): the UPDATE carries the values computed from the      *)
(* loaded ones.                                                            *)
(***************************************************************************)
MaxSubmissions == 2     \* submit requests started

SubmittedLecture == 1

\* the forms posted: every question answered "B" or left out
SubmissionForms ==
    {Form(f) : f \in [QuizIds(LectureQuestions(SubmittedLecture)) -> {"B", NoKey}]}

SubmissionUnchanged ==
    UNCHANGED <<now, reviews, prow, request, quizzes, lastSubmit, relationships,
                generation, returned, served, lectureRows, concepts>>

\* lines 1156-1204: the attempts are graded and committed, the score is
\* computed
SubmitCommitAttempts(answers, time_taken) ==
    LET questions == LectureQuestions(SubmittedLecture)
        n == Len(questions)
        correct_count == CorrectCount(questions, answers)
        score == IF n > 0 THEN Percentage(correct_count, n) ELSE RZero
    IN  /\ Len(inflight) < MaxSubmissions
        /\ attempts' = attempts \o
              [i \in 1..n |-> Attempt(questions[i], answers, time_taken, n)]
        /\ inflight' = Append(inflight, [route |-> "submit_quiz",
                                         pc |-> "read_progress",
                                         lecture_id |-> SubmittedLecture,
                                         score |-> score,
                                         progress |-> 0,
                                         loaded |-> NoRow])
        /\ UNCHANGED progress
        /\ SubmissionUnchanged

\* lines 1207-1212: the Progress row is loaded into the session
SubmitReadProgress(r) ==
    /\ inflight[r].route = "submit_quiz"
    /\ inflight[r].pc = "read_progress"
    /\ LET found == FirstProgress(progress, inflight[r].lecture_id)
       IN  inflight' = [inflight EXCEPT
               ![r].pc = IF found = 0 THEN "done" ELSE "commit_progress",
               ![r].progress = found,
               ![r].loaded = IF found = 0 THEN NoRow ELSE progress[found]]
    /\ UNCHANGED <<attempts, progress>>
    /\ SubmissionUnchanged

\* the columns an UPDATE sets: those whose value the handler changed
Updated(stored, loaded, changed) ==
    [f \in DOMAIN stored |->
        IF changed[f] # loaded[f] THEN changed[f] ELSE stored[f]]

\* lines 1213-1220: the new values are computed from the loaded ones and
\* the commit writes them to the row
SubmitCommitProgress(r) ==
    /\ inflight[r].route = "submit_quiz"
    /\ inflight[r].pc = "commit_progress"
    /\ progress' = [progress EXCEPT ![inflight[r].progress] =
           Updated(@, inflight[r].loaded,
                   RecordQuizScore(inflight[r].loaded, inflight[r].score))]
    /\ inflight' = [inflight EXCEPT ![r].pc = "done"]
    /\ UNCHANGED attempts
    /\ SubmissionUnchanged

InitSubmit ==
    /\ now = 0
    /\ reviews = <<>>
    /\ prow = NoRow
    /\ request = NoRow
    /\ quizzes = CourseQuizzes
    /\ attempts = <<>>
    /\ progress = [l \in Lectures |-> NewProgress(l)]
    /\ lastSubmit = NoRow
    /\ NoGeneration

NextSubmit ==
    \/ \E answers \in SubmissionForms, t \in TimeInputs :
         SubmitCommitAttempts(answers, t)
    \/ \E r \in DOMAIN inflight : SubmitReadProgress(r)
    \/ \E r \in DOMAIN inflight : SubmitCommitProgress(r)

SpecSubmit == InitSubmit /\ [][NextSubmit]_vars

(***************************************************************************)
(* Lecture.is_completed (models/lecture.py) and the handlers that write    *)
(* Progress rows: view_lecture, submit_quiz, submit_course_quiz.           *)
(***************************************************************************)
RECURSIVE MasterySum(_, _)
MasterySum(rows, concept_ids) ==
    IF concept_ids = {} THEN RZero
    ELSE LET c == CHOOSE x \in concept_ids : TRUE
         IN  RAdd(get_mastery_level(rows, c), MasterySum(rows, concept_ids \ {c}))

\* Lecture.is_completed: viewed, and an average concept mastery of 70
is_completed(rows, lecture_id) ==
    LET found == FirstProgress(rows, lecture_id)
        concept_ids == LectureConcepts(lecture_id)
    IN  IF found = 0 \/ ~rows[found].viewed THEN FALSE
        ELSE IF concept_ids = {} THEN rows[found].viewed
        ELSE RLe(Rat(70, 1),
                 RDivInt(MasterySum(rows, concept_ids), Cardinality(concept_ids)))

\* view_lecture: the Progress row of the lecture is looked up, created when
\* it is missing, and marked as viewed
ViewLecture(lecture_id) ==
    LET found == FirstProgress(progress, lecture_id)
        rows == IF found = 0 THEN Append(progress, NewProgress(lecture_id))
                ELSE progress
        row == IF found = 0 THEN Len(rows) ELSE found
    IN  /\ progress' = [rows EXCEPT ![row].viewed = TRUE]
        /\ UNCHANGED <<now, reviews, prow, request, quizzes, attempts,
                       lastSubmit, genVars>>

\* the viewed lectures: 1 of the course of the quizzes, 7 without concepts
ViewedLectures == {1, 7}

\* the lectures of the course were uploaded: each has its initial Progress
\* row, lecture 7 has none
InitStudy ==
    /\ now = 0
    /\ reviews = <<>>
    /\ prow = NoRow
    /\ request = NoRow
    /\ quizzes = CourseQuizzes
    /\ attempts = <<>>
    /\ progress = [l \in Lectures |-> NewProgress(l)]
    /\ lastSubmit = NoRow
    /\ NoGeneration

NextStudy ==
    \/ \E l \in ViewedLectures : ViewLecture(l)
    \/ LectureSubmission
    \/ CourseSubmission

SpecStudy == InitStudy /\ [][NextStudy]_vars

(***************************************************************************)
(* submit_quiz and generate_lecture_quiz, request after request: the       *)
(* QuizAttempt rows and the Quiz rows they name.                           *)
(***************************************************************************)
\* the answers of the regenerations: an error, the empty list, one and two
\* well-formed items for the first concept of the lecture
RegenResponses(lecture_id) ==
    LET cs == LectureConcepts(lecture_id)
        c == CHOOSE x \in cs : \A y \in cs : x <= y
        item == [concept_id |-> c, correct_answer |-> "b"]
    IN  {ServiceError, ItemList(<<>>), ItemList(<<item>>),
         ItemList(<<item, item>>)}

\* the forms posted for the questions of a lecture: answered "B" or left out
RegenForms(ids) == {Form(f) : f \in [ids -> {"B", NoKey}]}

\* submit_quiz for a lecture of the course; a lecture left without questions
\* adds no attempt, its submissions are counted on its Progress row
RegenSubmission ==
    \E l \in Lectures, t \in TimeInputs :
        \E answers \in RegenForms(QuizIds(LectureQuestions(l))) :
            /\ Len(attempts) < MaxAttempts
            /\ progress[FirstProgress(progress, l)].quiz_attempts < MaxAttempts
            /\ SubmitQuiz(l, answers, t)
            /\ UNCHANGED request

\* generate_lecture_quiz for a lecture of the course
Regeneration ==
    /\ generation < MaxGeneration
    /\ \E l \in Lectures :
           \E response \in RegenResponses(l) : GenerateLectureQuiz(l, response)

InitRegen == InitQuiz

NextRegen == RegenSubmission \/ Regeneration

SpecRegen == InitRegen /\ [][NextRegen]_vars

(***************************************************************************)
(* Properties of the scheduler.                                            *)
(***************************************************************************)
\* the scheduler state review i started from
PriorOf(i) == IF i = 1 THEN DefaultReview ELSE reviews[i - 1]

\* C1: calculate_next_review is the SM-2 transition: quality < 3 gives
\* repetitions 0 and interval 1 from any prior state; quality >= 3 gives
\* interval 1 after 0 repetitions, 6 after 1, else the floor of prior interval
\* times prior ease factor (the one before this review's ease update), and
\* repetitions + 1; three quality-5 reviews from the defaults give intervals
\* 1, 6, 16 and repetitions 1, 2, 3.
C1_SM2Transition ==
    /\ \A i \in 1..Len(reviews) :
         LET p == PriorOf(i)
             c == reviews[i]
         IN  /\ c.quality < 3 => c.repetitions = 0 /\ c.interval = 1
             /\ c.quality >= 3 =>
                  /\ c.repetitions = p.repetitions + 1
                  /\ p.repetitions = 0 => c.interval = 1
                  /\ p.repetitions = 1 => c.interval = 6
                  /\ p.repetitions >= 2 =>
                       c.interval = FloatToInt(FMulInt(p.interval, p.ease_factor))
    /\ (Len(reviews) >= 3 /\ \A i \in 1..3 : reviews[i].quality = 5) =>
         /\ <<reviews[1].interval, reviews[2].interval, reviews[3].interval>>
               = <<1, 6, 16>>
         /\ <<reviews[1].repetitions, reviews[2].repetitions,
              reviews[3].repetitions>> = <<1, 2, 3>>

\* C1 witness: three quality-5 reviews (the third multiplies the 6-day
\* interval by the prior ease factor 2.7), then a failed review that resets a
\* card with 3 repetitions
C1_Witness ==
    /\ Len(reviews) = 4
    /\ \A i \in 1..3 : reviews[i].quality = 5
    /\ reviews[3].interval = 16
    /\ reviews[3].repetitions = 3
    /\ reviews[4].quality = 0
    /\ reviews[4].interval = 1
    /\ reviews[4].repetitions = 0

\* C2: after any sequence of reviews from ease 2.5, interval 1, repetitions 0
\* every row has ease_factor >= 1.3, interval >= 1 and repetitions >= 0.
C2_SchedulerBounds ==
    \A i \in 1..Len(reviews) :
        /\ ~FLt(reviews[i].ease_factor, F1_3)
        /\ reviews[i].interval >= 1
        /\ reviews[i].repetitions >= 0

\* C2 witness: the 1.3 floor has been applied and a later review passed
C2_Witness ==
    /\ Len(reviews) >= 3
    /\ reviews[2].ease_factor = F1_3
    /\ reviews[3].quality >= 3

F2_6 == <<681574, 419430, 419456>>      \* 2.6   0x1.4cccccccccccdp+1

\* 0.1 - (5 - q) * (0.08 + (5 - q) * 0.02) in hundredths, exactly
EaseDelta100(q) == 10 - (5 - q) * (8 + (5 - q) * 2)

\* a float times 100, exactly (no rounding)
Times100(x) == FNorm(<<100 * x[1], 100 * x[2], 100 * x[3]>>)

\* |x - y| is below 2^16 units (of 2^-58 hundredths): x and y agree to 2^-48
Near(x, y) ==
    LET d == FNorm(<<x[1] - y[1], x[2] - y[2], x[3] - y[3]>>)
        m == IF d[1] < 0 THEN FNeg(d) ELSE d
    IN  m[1] = 0 /\ m[2] = 0 /\ m[3] < 65536

\* C3: every review, passed or failed, sets the ease factor to
\* max(1.3, ease + 0.1 - (5 - q) * (0.08 + (5 - q) * 0.02)) (to float
\* precision): quality 5 raises it (2.5 becomes 2.6), quality 4 leaves it
\* unchanged, quality <= 3 lowers it unless it is already 1.3.
C3_EaseUpdate ==
    \A i \in 1..Len(reviews) :
        LET p == PriorOf(i).ease_factor
            c == reviews[i].ease_factor
            q == reviews[i].quality
            sum100 == FNorm(<<100 * p[1] + EaseDelta100(q) * OneHigh,
                              100 * p[2], 100 * p[3]>>)
            floor100 == Times100(F1_3)
            target100 == IF FLt(sum100, floor100) THEN floor100 ELSE sum100
        IN  /\ Near(Times100(c), target100)
            /\ q = 5 => FLt(p, c)
            /\ (q = 5 /\ p = F2_5) => c = F2_6
            /\ q = 4 => c = p
            /\ q <= 3 => (FLt(c, p) \/ p = F1_3)

\* C3 witness: a failed review lowered the ease factor and a quality-5 review
\* raised it
C3_Witness ==
    /\ Len(reviews) >= 2
    /\ reviews[1].quality = 5
    /\ reviews[1].ease_factor = F2_6
    /\ reviews[2].quality < 3
    /\ FLt(reviews[2].ease_factor, reviews[1].ease_factor)

\* C4: is_due is true for a card never reviewed, and otherwise exactly when
\* now >= next_review_date of the most recent review, for every history.
C4_DueFollowsLatestReview ==
    is_due(reviews, now) =
        (reviews = <<>> \/ now >= reviews[Len(reviews)].next_review_date)

(***************************************************************************)
(* Properties of grading and progress.                                     *)
(***************************************************************************)
\* C5: the first recorded lecture score becomes quiz_avg_score and every
\* later score s replaces it with (old quiz_avg_score + s) / 2, for every
\* sequence of submissions and every score, a first score of 0 included.
C5_RunningAverageRecurrence ==
    [][\A l \in DOMAIN progress :
          progress'[l].quiz_attempts = progress[l].quiz_attempts + 1 =>
              LET s == lastSubmit'.lecture_scores[progress[l].lecture_id]
                  old == progress[l].quiz_avg_score
                  new == progress'[l].quiz_avg_score
              IN  IF progress[l].quiz_attempts = 0
                  THEN new = s
                  ELSE new[1] * 2 * old[2] * s[2]
                         = (old[1] * s[2] + s[1] * old[2]) * new[2]]_vars

\* C7: after any sequence of lecture and course-wide submissions every
\* Progress row has 0 <= mastery_level <= 100 and 0 <= quiz_avg_score <= 100.
C7_ProgressBounds ==
    \A l \in DOMAIN progress :
        /\ progress[l].mastery_level[1] >= 0
        /\ progress[l].mastery_level[1] <= 100 * progress[l].mastery_level[2]
        /\ progress[l].quiz_avg_score[1] >= 0
        /\ progress[l].quiz_avg_score[1] <= 100 * progress[l].quiz_avg_score[2]

\* C7 witness: a course-wide submission after an earlier submission has left
\* lecture 1 with average 100 (mastery 60) over two recorded scores
C7_Witness ==
    /\ lastSubmit # NoRow
    /\ lastSubmit.route = "submit_course_quiz"
    /\ 1 \in DOMAIN progress
    /\ progress[1].quiz_attempts = 2
    /\ progress[1].quiz_avg_score = <<100, 1>>
    /\ progress[1].mastery_level = <<60, 1>>

\* the form value posted for question i of the lecture ("" when none was)
Posted(i) == DictGet(request.answers, quizzes[i].id, "")

Graded == request # NoRow /\ ~request.pending

\* C8: a question is marked correct if and only if the upper-cased submitted
\* answer equals the stored correct_answer exactly; 'b' and 'B' are graded
\* the same.
C8_CaseInsensitiveGrading ==
    Graded =>
        /\ \A i \in 1..Len(quizzes) :
             attempts[i].is_correct <=>
                \/ Posted(i) \in {"b", "B"} /\ quizzes[i].correct_answer = "B"
                \/ Posted(i) \in {"a", "A"} /\ quizzes[i].correct_answer = "A"
                \/ Posted(i) = quizzes[i].correct_answer
        /\ \A i, j \in 1..Len(quizzes) :
             (/\ Posted(i) = "b"
              /\ Posted(j) = "B"
              /\ quizzes[i].correct_answer = quizzes[j].correct_answer)
                => attempts[i].is_correct = attempts[j].is_correct

\* C8 witness: a lower-case 'b' was graded correct against a stored 'B' and
\* wrong against a stored 'A'
C8_Witness ==
    /\ Graded
    /\ \E i, j \in 1..Len(quizzes) :
         /\ Posted(i) = "b"
         /\ quizzes[i].correct_answer = "B"
         /\ attempts[i].is_correct
         /\ Posted(j) = "b"
         /\ quizzes[j].correct_answer = "A"
         /\ ~attempts[j].is_correct

\* C9: a question of a lecture quiz for which no answer was submitted is
\* graded wrong (is_correct false, score 0) and stored with the sentinel
\* selection 'X', for every correct_answer the quiz row may hold.
C9_UnansweredIsWrong ==
    Graded =>
        \A i \in 1..Len(quizzes) :
            quizzes[i].id \notin DOMAIN request.answers =>
                /\ attempts[i].is_correct = FALSE
                /\ attempts[i].score = 0
                /\ attempts[i].selected_answer = "X"

\* C10: a lecture submission over n questions writes n QuizAttempt rows, one
\* per question, each with score 100 if correct else 0 and time_taken =
\* total time div n; the aggregate score is correctCount / n * 100 (0 when
\* n = 0) and correctCount rows have is_correct true (5 questions with 3
\* correct: score 60, 3 true rows, 2 false rows).
C10_AttemptsAndScore ==
    Graded =>
        LET n == Len(quizzes)
            trueRows == {i \in 1..Len(attempts) : attempts[i].is_correct}
            c == Cardinality(trueRows)
        IN  /\ Len(attempts) = n
            /\ \A i \in 1..n :
                 /\ attempts[i].quiz_id = quizzes[i].id
                 /\ attempts[i].score = (IF attempts[i].is_correct THEN 100 ELSE 0)
                 /\ attempts[i].time_taken * n <= request.time_taken
                 /\ request.time_taken < (attempts[i].time_taken + 1) * n
            /\ lastSubmit.total_questions = n
            /\ lastSubmit.correct_count = c
            /\ n = 0 => lastSubmit.score = <<0, 1>>
            /\ n > 0 => lastSubmit.score[1] * n = 100 * c * lastSubmit.score[2]
            /\ (n = 5 /\ c = 3) =>
                 /\ lastSubmit.score = <<60, 1>>
                 /\ Len(attempts) - c = 2

\* C10 witness: five questions graded, three of them correct
C10_Witness ==
    /\ Graded
    /\ Len(quizzes) = 5
    /\ Len(attempts) = 5
    /\ Cardinality({i \in 1..5 : attempts[i].is_correct}) = 3
    /\ lastSubmit.score = <<60, 1>>
    /\ attempts[1].time_taken = 12

(***************************************************************************)
(* Properties of the course-wide quiz.                                     *)
(***************************************************************************)
\* the QuizAttempt rows a step has added
AddedAttempts == SubSeq(attempts', Len(attempts) + 1, Len(attempts'))

\* C11: a course-wide submission grades every question of the instance that
\* was served: each served question gets exactly one QuizAttempt row and is
\* counted in the number of questions, a served question the user left
\* unanswered included (it is counted as wrong, not omitted).
C11_ServedQuestionsAllGraded ==
    [][(attempts' # attempts \/ lastSubmit' # lastSubmit) =>
          /\ lastSubmit'.total_questions = Len(served.questions)
          /\ \A i \in DOMAIN served.questions :
                Cardinality({k \in DOMAIN AddedAttempts :
                    AddedAttempts[k].quiz_id = served.questions[i].id}) = 1]_vars

\* the questions of a served list that belong to a lecture
ServedOfLecture(l) ==
    {i \in DOMAIN served.questions :
        ConceptLecture[served.questions[i].concept_id] = l}

\* C17: the list take_course_quiz assembles has at most
\* lectureCount * max(2, min(3, poolSize div lectureCount)) questions, at most
\* as many as the pool, at most the per-lecture cap from any one lecture, and
\* each pooled question at most once.
C17_AssembledListBounds ==
    (served # NoRow /\ served.rendered) =>
        LET lectureCount == Cardinality(CourseLectures(served.course_id))
            poolSize == Len(served.pool)
            cap == IF poolSize \div lectureCount >= 3 THEN 3 ELSE 2
        IN  /\ Len(served.questions) <= lectureCount * cap
            /\ Len(served.questions) <= poolSize
            /\ \A l \in CourseLectures(served.course_id) :
                  Cardinality(ServedOfLecture(l)) <= cap
            /\ \A i, j \in DOMAIN served.questions :
                  served.questions[i].id = served.questions[j].id => i = j
            /\ \A i \in DOMAIN served.questions :
                  \E k \in DOMAIN served.pool :
                      served.pool[k] = served.questions[i]

\* C17 witness: a pool of six questions over two lectures, four of them of
\* lecture 1: three are taken from lecture 1 and the two of lecture 2
C17_Witness ==
    /\ served # NoRow
    /\ served.rendered
    /\ served.course_id = 1
    /\ Len(served.pool) = 6
    /\ Len(served.questions) = 5
    /\ Cardinality(ServedOfLecture(1)) = 3
    /\ Cardinality(ServedOfLecture(2)) = 2

(***************************************************************************)
(* Properties of the relationship builder.                                 *)
(***************************************************************************)
\* C12: build_concept_relationships called for a course that does not
\* exist, has fewer than 2 lectures or has fewer than 2 concepts returns an
\* empty list, sends no generation request and deletes and inserts no
\* ConceptRelationship row.
C12_IneligibleCourseUntouched ==
    [][(/\ returned'.fn = "build_concept_relationships"
        /\ \/ returned'.arg \notin Courses
           \/ Cardinality({l \in DOMAIN LectureCourse :
                  LectureCourse[l] = returned'.arg}) < 2
           \/ Cardinality({c \in DOMAIN ConceptLecture :
                  LectureCourse[ConceptLecture[c]] = returned'.arg}) < 2)
       => /\ returned'.result = <<>>
          /\ ~returned'.raised
          /\ generation' = generation
          /\ relationships' = relationships]_vars

\* C12 witness: after a build of course 1 that stored a relationship next to
\* the one of course 2, a build for course 3 (one lecture, two concepts) has
\* returned the empty list
C12_Witness ==
    /\ returned # NoRow
    /\ returned.fn = "build_concept_relationships"
    /\ returned.arg = 3
    /\ returned.result = <<>>
    /\ ~returned.commit
    /\ generation = 1
    /\ Len(relationships) = 2

\* the items of a response whose two ids are concepts of the set
ValidItems(items, concept_ids) ==
    SelectSeq(items,
        LAMBDA item : /\ "concept_id" \in DOMAIN item
                      /\ "related_concept_id" \in DOMAIN item
                      /\ item.concept_id \in concept_ids
                      /\ item.related_concept_id \in concept_ids)

\* C13: after a successful build_concept_relationships for a course with
\* concept set S, the stored relationships with concept_id in S are exactly
\* the returned items whose concept_id and related_concept_id are both in S
\* (items with an unknown or missing endpoint are dropped without aborting),
\* and no relationship with concept_id outside S is deleted or changed.
C13_ReplaceWithinCourse ==
    [][(returned'.fn = "build_concept_relationships" /\ returned'.commit) =>
          LET S == CourseConcepts(returned'.arg)
              stored == SelectSeq(relationships', LAMBDA r : r.concept_id \in S)
              valid == ValidItems(returned'.response.items, S)
          IN  /\ Len(stored) = Len(valid)
              /\ \A i \in DOMAIN stored :
                    /\ stored[i].concept_id = valid[i].concept_id
                    /\ stored[i].related_concept_id = valid[i].related_concept_id
              /\ stored = returned'.result
              /\ SelectSeq(relationships', LAMBDA r : r.concept_id \notin S)
                   = SelectSeq(relationships, LAMBDA r : r.concept_id \notin S)]_vars

\* C13 witness: a build for course 1 was answered with an item between two
\* of its concepts and an item towards a concept of another course; one row
\* of course 1 is stored next to the rows of course 2
C13_Witness ==
    /\ returned # NoRow
    /\ returned.fn = "build_concept_relationships"
    /\ returned.arg = 1
    /\ returned.commit
    /\ Len(returned.response.items) = 2
    /\ returned.response.items[1].related_concept_id \notin CourseConcepts(1)
    /\ Len(returned.result) = 1
    /\ Len(relationships) = 2
    /\ relationships[1].concept_id \in CourseConcepts(2)
    /\ relationships[2].concept_id \in CourseConcepts(1)

\* C14: every stored ConceptRelationship has a relationship_type among
\* prerequisite, related, builds_on, part_of: a returned relationship whose
\* type is missing or is not one of the four is stored as 'related'.
C14_RelationshipTypeRecognized ==
    \A i \in DOMAIN relationships :
        relationships[i].relationship_type
            \in {"prerequisite", "related", "builds_on", "part_of"}

(***************************************************************************)
(* Properties of quiz generation.                                          *)
(***************************************************************************)
\* the items of a response that name a concept of the set
ItemsOfConcepts(items, concept_ids) ==
    SelectSeq(items, LAMBDA item : /\ "concept_id" \in DOMAIN item
                                   /\ item.concept_id \in concept_ids)

\* C15: after a successful generate_quiz_from_lecture for a lecture with
\* concept set S, the stored Quiz rows with concept_id in S are exactly the
\* returned items that reference a concept of S, and the Quiz rows of other
\* lectures are untouched.
C15_ReplaceWithinLecture ==
    [][(returned'.fn = "generate_quiz_from_lecture" /\ returned'.commit) =>
          LET S == LectureConcepts(returned'.arg)
              stored == SelectSeq(quizzes', LAMBDA q : q.concept_id \in S)
              valid == ItemsOfConcepts(returned'.response.items, S)
          IN  /\ Len(stored) = Len(valid)
              /\ \A i \in DOMAIN stored :
                    stored[i].concept_id = valid[i].concept_id
              /\ stored = returned'.result
              /\ SelectSeq(quizzes', LAMBDA q : q.concept_id \notin S)
                   = SelectSeq(quizzes, LAMBDA q : q.concept_id \notin S)]_vars

\* C15 witness: lecture 1 was regenerated from a list of an item of an
\* unknown concept and an item of its own; the row of lecture 2 is still
\* stored, followed by the one new row of lecture 1
C15_Witness ==
    /\ returned # NoRow
    /\ returned.fn = "generate_quiz_from_lecture"
    /\ returned.arg = 1
    /\ returned.commit
    /\ Len(returned.response.items) = 2
    /\ returned.response.items[1] = [concept_id |-> UnknownConcept,
                                     correct_answer |-> "b"]
    /\ Len(returned.result) = 1
    /\ Len(quizzes) = 2
    /\ quizzes[1] = CourseQuizzes[3]
    /\ quizzes[2].concept_id \in LectureConcepts(1)

\* C16: every Quiz row stored by the generation functions has correct_answer
\* among A, B, C, D: the generated value is upper-cased and an absent value
\* becomes 'A', for every item the generation service may return.
C16_CorrectAnswerIsALetter ==
    \A i \in DOMAIN quizzes :
        quizzes[i].correct_answer \in {"A", "B", "C", "D"}

\* an item a batch should deliver: it names a concept of the set and carries
\* a correct_answer
WellFormed(item, concept_ids) ==
    /\ "concept_id" \in DOMAIN item
    /\ item.concept_id \in concept_ids
    /\ "correct_answer" \in DOMAIN item
    /\ item.correct_answer # JsonNull

\* C18: when a generated batch contains an offending item (an unknown
\* concept id, a missing required field such as correct_answer), only that
\* item is skipped and the remaining items are processed: the caller
\* receives, and the store contains, every valid item of the batch.
C18_OnlyOffendingItemSkipped ==
    [][(/\ returned'.fn = "generate_quiz_from_lecture"
        /\ returned'.response.kind = "list"
        /\ LectureConcepts(returned'.arg) # {}) =>
          LET S == LectureConcepts(returned'.arg)
              valid == SelectSeq(returned'.response.items,
                                 LAMBDA item : WellFormed(item, S))
              stored == SelectSeq(quizzes', LAMBDA q : q.concept_id \in S)
          IN  /\ Len(returned'.result) = Len(valid)
              /\ \A i \in DOMAIN valid :
                    /\ returned'.result[i].concept_id = valid[i].concept_id
                    /\ returned'.result[i].correct_answer
                         = Upper(valid[i].correct_answer)
              /\ stored = returned'.result]_vars

(***************************************************************************)
(* Properties of the Progress rows.                                        *)
(***************************************************************************)
\* C19: in every reachable state there is at most one Progress row for a
\* (user, lecture) pair, under any interleaving of lecture uploads and
\* concurrent view_lecture requests.
C19_OneProgressRowPerLecture ==
    \A i, j \in DOMAIN progress :
        progress[i].lecture_id = progress[j].lecture_id => i = j

\* the lecture that owns the question of an attempt
AttemptLecture(a) ==
    LET q == CHOOSE k \in DOMAIN quizzes : quizzes[k].id = a.quiz_id
    IN  ConceptLecture[quizzes[q].concept_id]

\* the attempts a step has added for the questions of a lecture
AddedOfLecture(l) ==
    SelectSeq(AddedAttempts, LAMBDA a : AttemptLecture(a) = l)

\* C20: in a course-wide submission each lecture that owns at least one
\* graded question has its Progress updated on its own, with its own score:
\* quiz_attempts grows by exactly 1 and the average follows the
\* running-average recurrence with the lecture's score (the score itself the
\* first time, (old + score) / 2 afterwards); the Progress of a lecture
\* without graded question is unchanged.
C20_PerLectureProgressUpdate ==
    [][lastSubmit'.route = "submit_course_quiz" =>
          \A i \in DOMAIN progress :
              LET mine == AddedOfLecture(progress[i].lecture_id)
                  right == SelectSeq(mine, LAMBDA a : a.is_correct)
                  old == progress[i].quiz_avg_score
                  new == progress'[i].quiz_avg_score
              IN  IF mine = <<>>
                  THEN progress'[i] = progress[i]
                  ELSE /\ progress'[i].quiz_attempts
                            = progress[i].quiz_attempts + 1
                       /\ IF progress[i].quiz_attempts = 0
                          THEN new = Rat(100 * Len(right), Len(mine))
                          ELSE new[1] * 2 * old[2] * Len(mine)
                                 = (old[1] * Len(mine)
                                      + 100 * Len(right) * old[2]) * new[2]]_vars

(***************************************************************************)
(* Properties of the weak and strong concept lists.                        *)
(***************************************************************************)
ListedIds(result) == {result[i].concept : i \in DOMAIN result}

\* the list names each concept once and holds exactly the concepts of the
\* course that pass the threshold test
ListsExactly(result, wanted) ==
    /\ ListedIds(result) = wanted
    /\ Len(result) = Cardinality(wanted)
    /\ \A i \in DOMAIN result :
         result[i].mastery = get_mastery_level(progress, result[i].concept)

WeakWanted ==
    {c \in CourseConcepts(returned.arg) :
       RLt(get_mastery_level(progress, c), Rat(returned.threshold, 1))}

StrongWanted ==
    {c \in CourseConcepts(returned.arg) :
       RLe(Rat(returned.threshold, 1), get_mastery_level(progress, c))}

\* C21 (as stated): get_weak_concepts returns exactly the concepts with
\* mastery < threshold in strictly ascending order of mastery, and
\* get_strong_concepts exactly those with mastery >= threshold in strictly
\* descending order, also when concepts have equal mastery.
C21_StrictlySorted ==
    /\ returned # NoRow /\ returned.fn = "get_weak_concepts" =>
         /\ ListsExactly(returned.result, WeakWanted)
         /\ \A i, j \in DOMAIN returned.result : i < j =>
              RLt(returned.result[i].mastery, returned.result[j].mastery)
    /\ returned # NoRow /\ returned.fn = "get_strong_concepts" =>
         /\ ListsExactly(returned.result, StrongWanted)
         /\ \A i, j \in DOMAIN returned.result : i < j =>
              RLt(returned.result[j].mastery, returned.result[i].mastery)

\* C21 (amended): the weak list holds exactly the concepts with mastery <
\* threshold in ascending order of mastery and the strong list exactly those
\* with mastery >= threshold in descending order; concepts of equal mastery
\* are adjacent and keep the order of the loop (lecture, then concept).
C21_SortedStable ==
    /\ returned # NoRow /\ returned.fn = "get_weak_concepts" =>
         /\ ListsExactly(returned.result, WeakWanted)
         /\ \A i, j \in DOMAIN returned.result : i < j =>
              /\ RLe(returned.result[i].mastery, returned.result[j].mastery)
              /\ returned.result[i].mastery = returned.result[j].mastery =>
                   returned.result[i].concept < returned.result[j].concept
    /\ returned # NoRow /\ returned.fn = "get_strong_concepts" =>
         /\ ListsExactly(returned.result, StrongWanted)
         /\ \A i, j \in DOMAIN returned.result : i < j =>
              /\ RLe(returned.result[j].mastery, returned.result[i].mastery)
              /\ returned.result[i].mastery = returned.result[j].mastery =>
                   returned.result[i].concept < returned.result[j].concept

\* a strong list of three concepts, two of equal mastery, whose loop order is
\* not the sorted order
C21_Witness ==
    /\ returned # NoRow
    /\ returned.fn = "get_strong_concepts"
    /\ Len(returned.result) = 3
    /\ returned.result[1].concept = 3
    /\ returned.result[2].mastery = returned.result[3].mastery

(***************************************************************************)
(* Properties of generate_course_quiz.                                     *)
(***************************************************************************)
\* the concepts the rows of a table belong to
ConceptsOfRows(rows) == {rows[i].concept_id : i \in DOMAIN rows}

RowsOf(rows) == {rows[i] : i \in DOMAIN rows}

\* C22: generate_course_quiz takes the path of the existing quiz only when
\* quiz rows exist for the exact set of selected concepts; on that path it
\* returns the existing rows, sends no request and leaves the Quiz table as
\* it was; and on no path is a prior Quiz row deleted.
C22_CacheHitExactSet ==
    [][/\ returned'.fn = "generate_course_quiz" /\ returned'.hit =>
            /\ ConceptsOfRows(QuizzesOf(quizzes, returned'.concept_ids))
                 = returned'.concept_ids
            /\ returned'.result = QuizzesOf(quizzes, returned'.concept_ids)
            /\ generation' = generation
            /\ quizzes' = quizzes
       /\ returned'.fn = "generate_course_quiz" =>
            RowsOf(quizzes) \subseteq RowsOf(quizzes')]_vars

\* the parts of C22 that do not depend on the cache test: the path of the
\* existing quiz returns the rows unchanged without a request, and no path
\* deletes a row
C22_HitLeavesTable ==
    [][/\ returned'.fn = "generate_course_quiz" /\ returned'.hit =>
            /\ returned'.result = QuizzesOf(quizzes, returned'.concept_ids)
            /\ generation' = generation
            /\ quizzes' = quizzes
       /\ returned'.fn = "generate_course_quiz" =>
            RowsOf(quizzes) \subseteq RowsOf(quizzes')]_vars

(***************************************************************************)
(* Properties of extract_concepts_from_lecture.                            *)
(***************************************************************************)
\* C23: after extract_concepts_from_lecture has succeeded for a lecture, the
\* stored concepts of the lecture are exactly the concepts of that batch:
\* the rows of an earlier batch are replaced, not kept alongside.
C23_ConceptsReplacedWholesale ==
    returned # NoRow /\ returned.fn = "extract_concepts_from_lecture"
                     /\ returned.commit =>
        ConceptsOf(concepts, returned.arg) = returned.result

(***************************************************************************)
(* Properties of a build that fails.                                       *)
(***************************************************************************)
\* the build ran its delete statement and failed afterwards: the commit
\* refused a row without a relationship_type
FailedAfterDelete(call) ==
    /\ call # NoRow
    /\ call.fn = "build_concept_relationships"
    /\ BuildEligible(call.arg)
    /\ call.response.kind = "list"
    /\ LET valid == ValidItems(call.response.items, CourseConcepts(call.arg))
       IN  \E i \in DOMAIN valid :
               DictGet(valid[i], "relationship_type", "related") = JsonNull

RelationshipsOf(rows, concept_ids) ==
    SelectSeq(rows, LAMBDA r : r.concept_id \in concept_ids)

\* C24 (as stated): when build_concept_relationships fails after its delete
\* step, the course is left with zero relationships: the prior ones are lost.
C24_FailureLosesRelationships ==
    FailedAfterDelete(returned) =>
        RelationshipsOf(relationships, CourseConcepts(returned.arg)) = <<>>

\* C24 (amended): when build_concept_relationships fails after its delete
\* step, the delete is not committed: the stored relationships are exactly
\* those from before the call and the call returns the empty list.
C24_FailureKeepsRelationships ==
    [][FailedAfterDelete(returned') =>
          /\ relationships' = relationships
          /\ returned'.result = <<>>]_vars

\* C24 witness: a build of course 1 failed after its delete step while the
\* course had a stored relationship, which is still stored
C24_Witness ==
    /\ FailedAfterDelete(returned)
    /\ returned.arg = 1
    /\ RelationshipsOf(relationships, CourseConcepts(1)) # <<>>

(***************************************************************************)
(* Properties of concurrent rebuilds.                                      *)
(***************************************************************************)
\* a relationship without its row id
Edge(row) ==
    [concept_id |-> row.concept_id,
     related_concept_id |-> row.related_concept_id,
     relationship_type |-> row.relationship_type]

Edges(rows) == [i \in DOMAIN rows |-> Edge(rows[i])]

\* the validated result of a request: what its response stores for the course
ValidatedResult(r) ==
    Edges(SaveRelationships(<<>>, <<>>, CourseConcepts(RebuildCourse),
                            inflight[r].response.items).saved)

Quiescent == \A r \in DOMAIN inflight : inflight[r].pc = "done"

RECURSIVE ApplyScores(_, _)
ApplyScores(p, scores) ==
    IF scores = <<>> THEN p
    ELSE ApplyScores(RecordQuizScore(p, Head(scores)), Tail(scores))

SubmittedScores == [r \in DOMAIN inflight |-> inflight[r].score]

\* C26: when k submissions of one user for one lecture have completed, in
\* whatever order their reads and writes of the Progress row were
\* interleaved, quiz_attempts has grown by k and quiz_avg_score is what the
\* k scores give when they are applied one after the other in some order.
C26_NoLostUpdate ==
    (\A r \in DOMAIN inflight : inflight[r].pc = "done") =>
        LET row == progress[FirstProgress(progress, SubmittedLecture)]
        IN  /\ row.quiz_attempts = Len(inflight)
            /\ \E order \in Shuffle(SubmittedScores) :
                   row.quiz_avg_score
                     = ApplyScores(NewProgress(SubmittedLecture),
                                   order).quiz_avg_score

(***************************************************************************)
(* Properties of a generation call that fails.                             *)
(***************************************************************************)
\* C27: in build_concept_relationships and generate_quiz_from_lecture the
\* delete runs only after the response was received and parsed as a JSON
\* list: when the generation call times out, raises or returns text that is
\* not a JSON list, the operation returns the empty list and the stored
\* relationship or quiz rows are those from before the call.
C27_FailedCallReturnsEmpty ==
    [][/\ (/\ returned'.fn = "build_concept_relationships"
           /\ BuildEligible(returned'.arg)
           /\ returned'.response.kind # "list")
          => /\ returned'.result = <<>>
             /\ ~returned'.raised
             /\ relationships' = relationships
       /\ (/\ returned'.fn = "generate_quiz_from_lecture"
           /\ LectureConcepts(returned'.arg) # {}
           /\ returned'.response.kind # "list")
          => /\ returned'.result = <<>>
             /\ quizzes' = quizzes]_vars

\* the part of C27 that holds: a failed call leaves the stored rows alone
C27_FailedCallKeepsRows ==
    [][/\ (/\ returned'.fn = "build_concept_relationships"
           /\ BuildEligible(returned'.arg)
           /\ returned'.response.kind # "list")
          => relationships' = relationships
       /\ (/\ returned'.fn = "generate_quiz_from_lecture"
           /\ LectureConcepts(returned'.arg) # {}
           /\ returned'.response.kind # "list")
          => quizzes' = quizzes]_vars

(***************************************************************************)
(* Properties of a batch that is aborted while a course quiz is assembled. *)
(***************************************************************************)
\* C28: when generate_quiz_from_lecture returns the empty list because an
\* exception aborted the batch after items had been added, nothing of that
\* batch is persisted, also when the generation for a later lecture of the
\* same take_course_quiz request commits the session.
C28_AbortedBatchNotPersisted ==
    [][served' # NoRow =>
          \A l \in served'.aborted :
              QuizzesOf(quizzes', LectureConcepts(l))
                = QuizzesOf(quizzes, LectureConcepts(l))]_vars

(***************************************************************************)
(* Properties of the concept-level progress.                               *)
(***************************************************************************)
\* C29: no handler creates or updates a Progress row of a concept, so the
\* mastery of every concept is 0 in every reachable state:
\* get_strong_concepts(80) is empty, get_weak_concepts(60) lists every
\* concept of the course, and a lecture that has concepts is never reported
\* as completed.
C29_ConceptMasteryAlwaysZero ==
    /\ \A i \in DOMAIN progress : progress[i].concept_id = 0
    /\ \A c \in DOMAIN ConceptLecture : get_mastery_level(progress, c) = RZero
    /\ \A course_id \in Courses :
         /\ get_strong_concepts(progress, course_id, 80) = <<>>
         /\ ListedIds(get_weak_concepts(progress, course_id, 60))
              = CourseConcepts(course_id)
    /\ \A l \in DOMAIN LectureCourse :
         LectureConcepts(l) # {} => ~is_completed(progress, l)

\* C29 witness: lecture 1 was viewed and its quiz was answered without a
\* mistake, its own row has a mastery of 60, and a lecture without concepts
\* is reported as completed
C29_Witness ==
    /\ progress[1].lecture_id = 1
    /\ progress[1].viewed
    /\ progress[1].quiz_attempts > 0
    /\ progress[1].mastery_level = Rat(60, 1)
    /\ is_completed(progress, 7)

(***************************************************************************)
(* Properties of the attempts across regenerations.                        *)
(***************************************************************************)
\* C30: after any sequence of quiz submissions and quiz regenerations every
\* QuizAttempt row still exists unchanged and its quiz_id is the id of a
\* Quiz row that exists.
C30_AttemptsKeepTheirQuiz ==
    [][/\ Len(attempts) <= Len(attempts')
       /\ SubSeq(attempts', 1, Len(attempts)) = attempts
       /\ \A i \in DOMAIN attempts' :
            attempts'[i].quiz_id \in QuizIds(quizzes')]_vars

\* the part of C30 that holds: a regeneration removes or changes no attempt
C30_AttemptsKept ==
    [][/\ Len(attempts) <= Len(attempts')
       /\ SubSeq(attempts', 1, Len(attempts)) = attempts]_vars

====
